---------------------------- MODULE Spec2Model ----------------------------
(***************************************************************************)
(* MonAssmat: the settings timeline, the period summarizer and the         *)
(* calculation helpers of src/src/monassmat, as state machines.            *)
(*                                                                         *)
(* Numbers.  The program computes with Python floats.  The model computes  *)
(* with exact rationals <<n, d>> (d > 0, lowest terms), so every equation  *)
(* below is an equation of exact arithmetic; float rounding is not         *)
(* modelled.  A pair whose second component is 0 is no number:             *)
(*   <<0, 0>>  None,  <<1, 0>>  ZeroDivisionError,  <<2, 0>>  ValueError.  *)
(*                                                                         *)
(* Dates.  A datetime.date is modelled by its day number, 1 being the      *)
(* first of January of EpochYear; comparison and "+ timedelta(days=1)"     *)
(* are those of the integers, year and month are decoded with the          *)
(* calendar's month lengths.                                               *)
(***************************************************************************)
EXTENDS Integers, Sequences, FiniteSets, TLC

VARIABLES
    \* --- summarize_period: its arguments
    contract,            \* the contract row handed to the call
    workdays,            \* the workday rows handed to the call (a list)
    settings_snapshots,  \* the snapshot rows handed to the call (a list)
    start, end,          \* the period, both inclusive
    \* --- summarize_period: its locals
    pc,                  \* "call" | "loop" | "done" | "raised"
    raised,              \* the exception the call ended with, "" when none
    settings,            \* the timeline built by build_settings_timeline
    settings_index,      \* the cursor into settings (0-based, as in the code)
    current,             \* settings[settings_index] of the day in progress
    workdays_by_date,    \* {wd.date: wd for wd in workdays}
    iter_current,        \* iter_days' own "current": the next day to yield
    day,                 \* the loop variable: the day last yielded (0: none yet)
    acc,                 \* the accumulators of the loop, by their names
    summary,             \* <<>> or <<the MonthlySummaryOut returned>>
    earlier,             \* the calls that ended before this one: arguments and outcome
    \* --- a call of one of the functions of calculations.py
    calc_fn,             \* the function called, "" before the call
    calc_args,           \* its arguments
    calc_result,         \* what it returned
    \* --- the database and the last HTTP response
    db_contracts,        \* table contract: id -> row
    db_snapshots,        \* table contract_settings_snapshot: a set of rows
    db_workdays,         \* table workday: a set of rows
    response,            \* the outcome of the last request
    \* --- build_year_summary: its arguments and locals
    year_pc,             \* "idle" | "call" | "loop" | "done" | "raised"
    year_call,           \* what the call works on: contract, year, workdays, snapshots
    year_month,          \* the loop variable "month" of the next iteration
    monthly_items,       \* the summaries appended so far
    totals               \* the dict "totals"

sumArgs == <<contract, workdays, settings_snapshots, start, end>>
sumLocals == <<pc, raised, settings, settings_index, current, workdays_by_date,
               iter_current, day, acc, summary>>
sumVars == <<sumArgs, sumLocals, earlier>>
calcVars == <<calc_fn, calc_args, calc_result>>
storeVars == <<db_contracts, db_snapshots, db_workdays, response>>
yearVars == <<year_pc, year_call, year_month, monthly_items, totals>>
vars == <<sumVars, calcVars, storeVars, yearVars>>

-----------------------------------------------------------------------------
(* Exact rational arithmetic standing for Python's float arithmetic.       *)

None == <<0, 0>>
ZeroDivisionError == <<1, 0>>
ValueError == <<2, 0>>

IsNone(x) == x = None
IsError(x) == x[2] = 0 /\ x[1] > 0
IsNumber(x) == x[2] > 0

Abs(n) == IF n < 0 THEN -n ELSE n

RECURSIVE GCD(_, _)
GCD(a, b) == IF b = 0 THEN a ELSE GCD(b, a % b)

Norm(n, d) ==
    LET g == GCD(Abs(n), d)
    IN  IF n >= 0 THEN <<n \div g, d \div g>> ELSE <<-((-n) \div g), d \div g>>

Q(n, d) == Norm(n, d)
N(i) == <<i, 1>>
Zero == <<0, 1>>

RAdd(a, b) == Norm(a[1] * b[2] + b[1] * a[2], a[2] * b[2])
RSub(a, b) == Norm(a[1] * b[2] - b[1] * a[2], a[2] * b[2])
RMul(a, b) == Norm(a[1] * b[1], a[2] * b[2])
RDiv(a, b) ==
    IF b[1] = 0 THEN ZeroDivisionError
    ELSE IF b[1] > 0 THEN Norm(a[1] * b[2], a[2] * b[1])
    ELSE Norm(-(a[1] * b[2]), a[2] * (-b[1]))
RLe(a, b) == a[1] * b[2] <= b[1] * a[2]
RLt(a, b) == a[1] * b[2] < b[1] * a[2]
RMin(a, b) == IF RLe(a, b) THEN a ELSE b
RMax(a, b) == IF RLe(a, b) THEN b ELSE a

\* "x or 0.0": None and 0.0 are both falsy
OrZero(x) == IF IsNone(x) \/ x = Zero THEN Zero ELSE x

-----------------------------------------------------------------------------
(* The calendar: calendar.monthrange(year, month)[1] and the decoding of a *)
(* day number into year and month.                                         *)

EpochYear == 2025

IsLeap(y) == (y % 4 = 0 /\ y % 100 # 0) \/ y % 400 = 0

monthrange(y, m) ==
    IF m = 2 THEN (IF IsLeap(y) THEN 29 ELSE 28)
    ELSE IF m \in {4, 6, 9, 11} THEN 30 ELSE 31

RECURSIVE YearMonthDay(_, _, _)
YearMonthDay(n, y, m) ==
    IF n <= monthrange(y, m) THEN <<y, m, n>>
    ELSE YearMonthDay(n - monthrange(y, m),
                      IF m = 12 THEN y + 1 ELSE y,
                      IF m = 12 THEN 1 ELSE m + 1)

YearOf(d) == YearMonthDay(d, EpochYear, 1)[1]
MonthOf(d) == YearMonthDay(d, EpochYear, 1)[2]
DayOfMonth(d) == YearMonthDay(d, EpochYear, 1)[3]

RECURSIVE DateOrdinal(_, _, _)
\* date(y, m, d) as a day number
DateOrdinal(y, m, d) ==
    IF y = EpochYear /\ m = 1 THEN d
    ELSE IF m = 1 THEN DateOrdinal(y - 1, 12, d + monthrange(y - 1, 12))
    ELSE DateOrdinal(y, m - 1, d + monthrange(y, m - 1))

-----------------------------------------------------------------------------
(* Sequences                                                               *)

SetMax(S) == CHOOSE x \in S : \A y \in S : y <= x
SetMin(S) == CHOOSE x \in S : \A y \in S : x <= y

\* Python's 0-based indexing
At(s, i) == s[i + 1]

SeqsUpTo(S, n) == UNION {[1..k -> S] : k \in 0..n}


-----------------------------------------------------------------------------
(* calculations.py                                                         *)

NORMAL == "normal"
ABSENCE == "absence"
UNPAID_LEAVE == "unpaid_leave"
HOLIDAY == "holiday"
ASSMAT_LEAVE == "assmat_leave"
WorkdayKind == {NORMAL, ABSENCE, UNPAID_LEAVE, HOLIDAY, ASSMAT_LEAVE}

\* a check that lets 0 through
_assert_not_negative(value) == RLe(Zero, value)

\* _assert_positive raises ValueError unless value > 0
_assert_positive(value) == RLt(Zero, value)

\* the minutes of a time of day: hour * 60 + minute, the seconds are not read
MinutesOf(t) == t.hour * 60 + t.minute

\* an end at or before the start taken as a time of the next day
hours_between_times_overnight(start_time, end_time) ==
    IF MinutesOf(end_time) <= MinutesOf(start_time)
    THEN Q(MinutesOf(end_time) + 24 * 60 - MinutesOf(start_time), 60)
    ELSE Q(MinutesOf(end_time) - MinutesOf(start_time), 60)

\* hours_between_times(start, end)
hours_between_times(start_time, end_time) ==
    IF MinutesOf(end_time) <= MinutesOf(start_time) THEN ValueError
    ELSE Q(MinutesOf(end_time) - MinutesOf(start_time), 60)

\* include_kinds=None, the default of hours_in_period
NoKinds == {"None"}

RECURSIVE HoursInPeriodLoop(_, _, _, _, _)
\* hours_in_period's loop "for wd in workdays" from a running total: a record
\* counts when period.start <= wd.day <= period.end and its kind is included;
\* negative hours of such a record raise
HoursInPeriodLoop(wds, period_start, period_end, include_kinds, total) ==
    IF wds = <<>> THEN total
    ELSE LET wd == Head(wds)
         IN  IF period_start <= wd.day /\ wd.day <= period_end
                 /\ wd.kind \in include_kinds
             THEN IF RLt(wd.hours, Zero) THEN ValueError
                  ELSE HoursInPeriodLoop(Tail(wds), period_start, period_end,
                                         include_kinds, RAdd(total, wd.hours))
             ELSE HoursInPeriodLoop(Tail(wds), period_start, period_end,
                                    include_kinds, total)

\* hours_in_period with the kind of the records not looked at
hours_in_period_any_kind(wds, period, include_kinds) ==
    IF period.end < period.start THEN ValueError
    ELSE HoursInPeriodLoop(wds, period.start, period.end, WorkdayKind, Zero)

\* hours_in_period(workdays, period, include_kinds=None)
hours_in_period(wds, period, include_kinds) ==
    IF period.end < period.start THEN ValueError
    ELSE HoursInPeriodLoop(wds, period.start, period.end,
                           IF include_kinds = NoKinds THEN {NORMAL} ELSE include_kinds,
                           Zero)

MAINTIEN == "maintien"
DIXIEME == "dixieme"
PaidLeaveMethod == {MAINTIEN, DIXIEME}

\* paid_leave_value with a missing DIXIEME reference amount taken as 0.0
paid_leave_value_defaulting(method, days_taken, daily_reference_hours, hourly_rate, dixieme_reference_amount) ==
    IF RLt(days_taken, Zero) THEN ValueError
    ELSE IF ~_assert_positive(daily_reference_hours) THEN ValueError
    ELSE IF ~_assert_positive(hourly_rate) THEN ValueError
    ELSE IF method = MAINTIEN
         THEN RMul(RMul(days_taken, daily_reference_hours), hourly_rate)
    ELSE IF method = DIXIEME
         THEN IF IsNone(dixieme_reference_amount) THEN Zero
              ELSE IF RLt(dixieme_reference_amount, Zero) THEN ValueError
              ELSE dixieme_reference_amount
    ELSE ValueError

\* paid_leave_value(method=, days_taken=, daily_reference_hours=, hourly_rate=,
\* dixieme_reference_amount=None)
paid_leave_value(method, days_taken, daily_reference_hours, hourly_rate, dixieme_reference_amount) ==
    IF RLt(days_taken, Zero) THEN ValueError
    ELSE IF ~_assert_positive(daily_reference_hours) THEN ValueError
    ELSE IF ~_assert_positive(hourly_rate) THEN ValueError
    ELSE IF method = MAINTIEN
         THEN RMul(RMul(days_taken, daily_reference_hours), hourly_rate)
    ELSE IF method = DIXIEME
         THEN IF IsNone(dixieme_reference_amount) THEN ValueError
              ELSE IF RLt(dixieme_reference_amount, Zero) THEN ValueError
              ELSE dixieme_reference_amount
    ELSE ValueError

\* contract_monthly_hours(facts): hours_per_week * weeks_per_year / 12
contract_monthly_hours(facts) ==
    IF ~_assert_positive(facts.hours_per_week) THEN ValueError
    ELSE IF ~_assert_positive(facts.weeks_per_year) THEN ValueError
    ELSE RDiv(RMul(facts.hours_per_week, facts.weeks_per_year), N(12))

\* the monthly salary with a non-positive hourly_rate let through
contract_monthly_salary_unchecked(facts) ==
    LET h == contract_monthly_hours(facts)
    IN  IF IsError(h) THEN h ELSE RMul(h, facts.hourly_rate)

\* contract_monthly_salary(facts): monthly hours * hourly_rate
contract_monthly_salary(facts) ==
    IF ~_assert_positive(facts.hourly_rate) THEN ValueError
    ELSE LET h == contract_monthly_hours(facts)
         IN  IF IsError(h) THEN h ELSE RMul(h, facts.hourly_rate)

ZeroTotals ==
    [total_hours |-> Zero, normal_hours |-> Zero, majorated_hours |-> Zero]

RECURSIVE SumIncludedHours(_, _)
SumIncludedHours(wds, include_kinds) ==
    IF wds = <<>> THEN Zero
    ELSE IF Head(wds).kind \notin include_kinds
         THEN SumIncludedHours(Tail(wds), include_kinds)
         ELSE RAdd(Head(wds).hours, SumIncludedHours(Tail(wds), include_kinds))

\* the threshold applied once to the total of the period instead of per record
WorkdayHourBandsOfPeriod(wds, majoration_threshold, include_kinds) ==
    LET total == SumIncludedHours(wds, include_kinds)
        normal == IF IsNone(majoration_threshold) THEN total
                  ELSE RMin(total, majoration_threshold)
    IN  [total_hours |-> total, normal_hours |-> normal,
         majorated_hours |-> RSub(total, normal)]

RECURSIVE WorkdayHourBands(_, _, _)
\* workday_totals' loop over the records: the hours of the included kinds,
\* split per record at the (daily) majoration threshold
WorkdayHourBands(wds, majoration_threshold, include_kinds) ==
    IF wds = <<>> THEN ZeroTotals
    ELSE LET wd == Head(wds)
             rest == WorkdayHourBands(Tail(wds), majoration_threshold,
                                      include_kinds)
             normal == IF IsNone(majoration_threshold) THEN wd.hours
                       ELSE RMin(wd.hours, majoration_threshold)
         IN  IF wd.kind \notin include_kinds THEN rest
             ELSE [total_hours |-> RAdd(wd.hours, rest.total_hours),
                   normal_hours |-> RAdd(normal, rest.normal_hours),
                   majorated_hours |->
                       RAdd(RSub(wd.hours, normal), rest.majorated_hours)]

\* workday_totals(workdays, hourly_rate, majoration_threshold, majoration_rate,
\* include_kinds)
workday_totals(wds, hourly_rate, majoration_threshold, majoration_rate, include_kinds) ==
    LET b == WorkdayHourBands(wds, majoration_threshold, include_kinds)
        base_salary == RMul(b.normal_hours, hourly_rate)
        majoration_salary ==
            IF IsNone(majoration_rate) THEN Zero
            ELSE RMul(RMul(b.majorated_hours, hourly_rate), majoration_rate)
    IN  [total_hours |-> b.total_hours,
         normal_hours |-> b.normal_hours,
         majorated_hours |-> b.majorated_hours,
         base_salary |-> base_salary,
         majoration_salary |-> majoration_salary,
         total_salary |-> RAdd(base_salary, majoration_salary)]

\* the deduction of whole weeks: hours_per_week is not divided by days_per_week
unpaid_leave_deduction_of_weeks(day_count, hours_per_week, days_per_week, hourly_rate) ==
    IF IsNone(days_per_week) THEN Zero
    ELSE RMul(RMul(N(day_count), hours_per_week), hourly_rate)

\* unpaid_leave_deduction(day_count, hours_per_week, days_per_week, hourly_rate)
unpaid_leave_deduction(day_count, hours_per_week, days_per_week, hourly_rate) ==
    IF IsNone(days_per_week) THEN Zero
    ELSE LET daily_hours == RDiv(hours_per_week, days_per_week)
         IN  IF IsError(daily_hours) THEN daily_hours
             ELSE RMul(RMul(N(day_count), daily_hours), hourly_rate)

-----------------------------------------------------------------------------
(* app.py: the settings timeline                                           *)

SettingsFields(r) ==
    [hours_per_week |-> r.hours_per_week,
     weeks_per_year |-> r.weeks_per_year,
     hourly_rate |-> r.hourly_rate,
     days_per_week |-> r.days_per_week,
     majoration_threshold |-> r.majoration_threshold,
     majoration_rate |-> r.majoration_rate,
     fee_meal_amount |-> r.fee_meal_amount,
     fee_maintenance_amount |-> r.fee_maintenance_amount,
     salary_net_ceiling |-> r.salary_net_ceiling]

WithValidFrom(f, valid_from) ==
    [valid_from |-> valid_from,
     hours_per_week |-> f.hours_per_week,
     weeks_per_year |-> f.weeks_per_year,
     hourly_rate |-> f.hourly_rate,
     days_per_week |-> f.days_per_week,
     majoration_threshold |-> f.majoration_threshold,
     majoration_rate |-> f.majoration_rate,
     fee_meal_amount |-> f.fee_meal_amount,
     fee_maintenance_amount |-> f.fee_maintenance_amount,
     salary_net_ceiling |-> f.salary_net_ceiling]

snapshot_from_contract(c, valid_from) == WithValidFrom(SettingsFields(c), valid_from)

snapshot_from_row(row) == WithValidFrom(SettingsFields(row), row.valid_from)

RECURSIVE InsertByValidFrom(_, _)
\* item goes after every entry whose valid_from is <= its own (stable)
InsertByValidFrom(sorted, item) ==
    IF sorted = <<>> THEN <<item>>
    ELSE IF item.valid_from < Head(sorted).valid_from THEN <<item>> \o sorted
    ELSE <<Head(sorted)>> \o InsertByValidFrom(Tail(sorted), item)

RECURSIVE SortByValidFrom(_)
\* list.sort(key=valid_from): ascending and stable
SortByValidFrom(items) ==
    IF items = <<>> THEN <<>>
    ELSE InsertByValidFrom(SortByValidFrom(SubSeq(items, 1, Len(items) - 1)),
                           items[Len(items)])

\* the contract's own entry kept in front of the snapshots
build_settings_timeline_with_contract(c, snapshots) ==
    <<snapshot_from_contract(c, c.start_date)>>
        \o SortByValidFrom([i \in 1..Len(snapshots) |-> snapshot_from_row(snapshots[i])])

build_settings_timeline(c, snapshots) ==
    IF snapshots = <<>> THEN <<snapshot_from_contract(c, c.start_date)>>
    ELSE SortByValidFrom([i \in 1..Len(snapshots) |-> snapshot_from_row(snapshots[i])])


\* a timeline built by sorting the list it was given: the caller's list is
\* sorted too
build_settings_timeline_in_place(c, snapshots) ==
    [snapshots |-> SortByValidFrom(snapshots),
     returned |-> build_settings_timeline(c, snapshots)]

\* the two lists once build_settings_timeline has run: the list it was given
\* and the list it returns.  "ordered" is a new list of new dicts and
\* ordered.sort() sorts that list, so the list given keeps its rows and their
\* order
build_settings_timeline_lists(c, snapshots) ==
    [snapshots |-> snapshots,
     returned |-> build_settings_timeline(c, snapshots)]

-----------------------------------------------------------------------------
(* app.py: summarize_period                                                *)

\* iter_days with an exclusive end: the last day is not yielded
iter_days_yields_exclusive(cur, last) == cur < last

\* iter_days that yields one day past the end
iter_days_yields_past_end(cur, last) == cur <= last + 1

\* iter_days: "while current <= end: yield current"
iter_days_yields(cur, last) == cur <= last

\* workdays_by_date = {wd.date: wd for wd in workdays}: the last row of a date wins
WorkdaysByDate(wds) ==
    [d \in {wds[i].date : i \in DOMAIN wds} |->
        wds[SetMax({i \in DOMAIN wds : wds[i].date = d})]]

ZeroAcc ==
    [theo_hours |-> Zero, theo_salary |-> Zero, real_hours |-> Zero,
     normal_hours |-> Zero, majorated_hours |-> Zero, salary_base |-> Zero,
     salary_majoration |-> Zero,
     work_days |-> 0, absence_days |-> 0, unpaid_leave_days |-> 0,
     assmat_leave_days |-> 0, holiday_days |-> 0,
     fee_meal_days |-> 0, fee_maintenance_days |-> 0,
     fee_meal_total |-> Zero, fee_maintenance_total |-> Zero,
     unpaid_deduction |-> Zero]

\* the value of "current" before the loop assigns it
NoSettings ==
    [valid_from |-> 0, hours_per_week |-> None, weeks_per_year |-> None,
     hourly_rate |-> None, days_per_week |-> None, majoration_threshold |-> None,
     majoration_rate |-> None, fee_meal_amount |-> None,
     fee_maintenance_amount |-> None, salary_net_ceiling |-> None]

\* the boundary test with < for <=: the day of a change keeps the old settings
NextBoundaryReachedStrict(tl, idx, d) == At(tl, idx + 1).valid_from < d

\* "settings[settings_index + 1]["valid_from"] <= day"
NextBoundaryReached(tl, idx, d) == At(tl, idx + 1).valid_from <= d

RECURSIVE AdvanceSettingsIndex(_, _, _)
\* the while loop that moves the settings cursor for day d
AdvanceSettingsIndex(tl, idx, d) ==
    IF idx + 1 < Len(tl) /\ NextBoundaryReached(tl, idx, d)
    THEN AdvanceSettingsIndex(tl, idx + 1, d)
    ELSE idx

\* facts = ContractFacts(..., hours_per_week=current[...], ...)
ContractFacts(c, cur) ==
    [start_date |-> c.start_date, end_date |-> c.end_date,
     hours_per_week |-> cur.hours_per_week,
     weeks_per_year |-> cur.weeks_per_year,
     hourly_rate |-> cur.hourly_rate]

\* days_in_month = calendar.monthrange(day.year, day.month)[1]
days_in_month(d) == monthrange(YearOf(d), MonthOf(d))

\* one day's share of a monthly figure
DayShare(monthly, d) == RDiv(monthly, N(days_in_month(d)))

\* the deduction taken from the contract's own fields
DayDeductionOfContract(cur) ==
    unpaid_leave_deduction(1, contract.hours_per_week, contract.days_per_week,
                           contract.hourly_rate)

\* the deduction of an unpaid-leave day
DayDeduction(cur) ==
    unpaid_leave_deduction(1, cur.hours_per_week, cur.days_per_week, cur.hourly_rate)

\* the chain with a holiday counted as an absence
CountKindHolidayAsAbsence(a, wd, cur) ==
    IF wd.kind = NORMAL THEN [a EXCEPT !.work_days = @ + 1]
    ELSE IF wd.kind = ABSENCE THEN [a EXCEPT !.absence_days = @ + 1]
    ELSE IF wd.kind = UNPAID_LEAVE THEN
        [a EXCEPT !.unpaid_leave_days = @ + 1,
                  !.unpaid_deduction = RAdd(@, DayDeduction(cur))]
    ELSE IF wd.kind = ASSMAT_LEAVE THEN [a EXCEPT !.assmat_leave_days = @ + 1]
    ELSE IF wd.kind = HOLIDAY THEN [a EXCEPT !.absence_days = @ + 1]
    ELSE a

\* the if/elif chain over wd.kind: the day counters and the unpaid-leave deduction
CountKind(a, wd, cur) ==
    IF wd.kind = NORMAL THEN [a EXCEPT !.work_days = @ + 1]
    ELSE IF wd.kind = ABSENCE THEN [a EXCEPT !.absence_days = @ + 1]
    ELSE IF wd.kind = UNPAID_LEAVE THEN
        [a EXCEPT !.unpaid_leave_days = @ + 1,
                  !.unpaid_deduction = RAdd(@, DayDeduction(cur))]
    ELSE IF wd.kind = ASSMAT_LEAVE THEN [a EXCEPT !.assmat_leave_days = @ + 1]
    ELSE IF wd.kind = HOLIDAY THEN [a EXCEPT !.holiday_days = @ + 1]
    ELSE a

\* "if wd.kind == WorkdayKind.NORMAL and wd.hours > 0"
CountsAsWorked(wd) == wd.kind = NORMAL /\ RLt(Zero, wd.hours)

\* the day valued with the contract's own rate, threshold and majoration rate
DayTotalsOfContract(wd, cur) ==
    workday_totals(<<[day |-> wd.date, hours |-> wd.hours, kind |-> wd.kind]>>,
                   contract.hourly_rate, contract.majoration_threshold,
                   contract.majoration_rate, {NORMAL})

\* wd_totals = workday_totals([WorkdayFacts(...)], hourly_rate=current[...], ...)
DayTotals(wd, cur) ==
    workday_totals(<<[day |-> wd.date, hours |-> wd.hours, kind |-> wd.kind]>>,
                   cur.hourly_rate, cur.majoration_threshold,
                   cur.majoration_rate, {NORMAL})

\* the real hours and salary of a worked day
AddRealTotals(a, wd, cur) ==
    IF CountsAsWorked(wd)
    THEN LET wd_totals == DayTotals(wd, cur)
         IN  [a EXCEPT !.real_hours = RAdd(@, wd_totals.total_hours),
                       !.normal_hours = RAdd(@, wd_totals.normal_hours),
                       !.majorated_hours = RAdd(@, wd_totals.majorated_hours),
                       !.salary_base = RAdd(@, wd_totals.base_salary),
                       !.salary_majoration = RAdd(@, wd_totals.majoration_salary)]
    ELSE a

\* the fees counted on worked days only
AddFeesOfNormalDays(a, wd, cur) ==
    IF wd.kind # NORMAL THEN a
    ELSE LET a1 == IF wd.fee_meal
                   THEN [a EXCEPT !.fee_meal_days = @ + 1,
                                  !.fee_meal_total = RAdd(@, OrZero(cur.fee_meal_amount))]
                   ELSE a
         IN  IF wd.fee_maintenance
             THEN [a1 EXCEPT !.fee_maintenance_days = @ + 1,
                             !.fee_maintenance_total =
                                 RAdd(@, OrZero(cur.fee_maintenance_amount))]
             ELSE a1

\* the fee counters and totals
AddFees(a, wd, cur) ==
    LET a1 == IF wd.fee_meal
              THEN [a EXCEPT !.fee_meal_days = @ + 1,
                             !.fee_meal_total = RAdd(@, OrZero(cur.fee_meal_amount))]
              ELSE a
    IN  IF wd.fee_maintenance
        THEN [a1 EXCEPT !.fee_maintenance_days = @ + 1,
                        !.fee_maintenance_total =
                            RAdd(@, OrZero(cur.fee_maintenance_amount))]
        ELSE a1

\* what the body does with the day's workday row
AddWorkday(a, wd, cur) == AddFees(AddRealTotals(CountKind(a, wd, cur), wd, cur), wd, cur)

\* a body that counts a day without a workday row as an absence
LoopBodyCountsMissingDay(c, tl, by_date, idx, a, d) ==
    LET idx1 == AdvanceSettingsIndex(tl, idx, d)
        cur == At(tl, idx1)
        facts == ContractFacts(c, cur)
        monthly_hours == contract_monthly_hours(facts)
        monthly_salary == contract_monthly_salary(facts)
        a1 == [a EXCEPT !.theo_hours = RAdd(@, DayShare(monthly_hours, d)),
                        !.theo_salary = RAdd(@, DayShare(monthly_salary, d))]
    IN  IF IsError(monthly_hours) \/ IsError(monthly_salary)
        THEN [settings_index |-> idx1, current |-> cur, acc |-> a, failed |-> TRUE]
        ELSE [settings_index |-> idx1, current |-> cur, failed |-> FALSE,
              acc |-> IF d \in DOMAIN by_date
                      THEN AddWorkday(a1, by_date[d], cur)
                      ELSE [a1 EXCEPT !.absence_days = @ + 1]]

\* a body that skips the days earlier than the first timeline entry
LoopBodySkipsEarlyDays(c, tl, by_date, idx, a, d) ==
    LET idx1 == AdvanceSettingsIndex(tl, idx, d)
        cur == At(tl, idx1)
        facts == ContractFacts(c, cur)
        monthly_hours == contract_monthly_hours(facts)
        monthly_salary == contract_monthly_salary(facts)
        a1 == [a EXCEPT !.theo_hours = RAdd(@, DayShare(monthly_hours, d)),
                        !.theo_salary = RAdd(@, DayShare(monthly_salary, d))]
    IN  IF d < tl[1].valid_from
        THEN [settings_index |-> idx1, current |-> cur, acc |-> a, failed |-> FALSE]
        ELSE IF IsError(monthly_hours) \/ IsError(monthly_salary)
        THEN [settings_index |-> idx1, current |-> cur, acc |-> a, failed |-> TRUE]
        ELSE [settings_index |-> idx1, current |-> cur, failed |-> FALSE,
              acc |-> IF d \in DOMAIN by_date
                      THEN AddWorkday(a1, by_date[d], cur)
                      ELSE a1]

\* the body of "for day in iter_days(start, end)" for day d: the new cursor,
\* the settings applied, the new accumulators, or failed when a calculation raises
LoopBody(c, tl, by_date, idx, a, d) ==
    LET idx1 == AdvanceSettingsIndex(tl, idx, d)
        cur == At(tl, idx1)
        facts == ContractFacts(c, cur)
        monthly_hours == contract_monthly_hours(facts)
        monthly_salary == contract_monthly_salary(facts)
        a1 == [a EXCEPT !.theo_hours = RAdd(@, DayShare(monthly_hours, d)),
                        !.theo_salary = RAdd(@, DayShare(monthly_salary, d))]
    IN  IF IsError(monthly_hours) \/ IsError(monthly_salary)
        THEN [settings_index |-> idx1, current |-> cur, acc |-> a, failed |-> TRUE]
        ELSE [settings_index |-> idx1, current |-> cur, failed |-> FALSE,
              acc |-> IF d \in DOMAIN by_date
                      THEN AddWorkday(a1, by_date[d], cur)
                      ELSE a1]

\* the average without its guard
AverageHoursUnguarded(real_hours, work_days) == RDiv(real_hours, N(work_days))

\* average_hours = real_hours / work_days if work_days else 0.0
AverageHours(real_hours, work_days) ==
    IF work_days # 0 THEN RDiv(real_hours, N(work_days)) ELSE Zero

\* the estimate with the deduction left out
TotalEstimatedNoDeduction(total_salary, fee_meal_total, fee_maintenance_total, unpaid_deduction) ==
    RAdd(RAdd(total_salary, fee_meal_total), fee_maintenance_total)

\* total_estimated = total_salary + fee_meal_total + fee_maintenance_total - unpaid_deduction
TotalEstimated(total_salary, fee_meal_total, fee_maintenance_total, unpaid_deduction) ==
    RSub(RAdd(RAdd(total_salary, fee_meal_total), fee_maintenance_total), unpaid_deduction)

\* the figures computed after the loop and the MonthlySummaryOut returned
FinalSummary(a, period_start, period_end) ==
    LET total_salary == RAdd(a.salary_base, a.salary_majoration)
        hours_delta == RSub(a.real_hours, a.theo_hours)
        total_estimated ==
            TotalEstimated(total_salary, a.fee_meal_total, a.fee_maintenance_total,
                           a.unpaid_deduction)
        average_hours == AverageHours(a.real_hours, a.work_days)
    IN  [period_start |-> period_start,
         period_end |-> period_end,
         monthly_hours_theoretical |-> a.theo_hours,
         monthly_salary_theoretical |-> a.theo_salary,
         hours_real |-> a.real_hours,
         hours_normal |-> a.normal_hours,
         hours_majorated |-> a.majorated_hours,
         hours_delta |-> hours_delta,
         work_days |-> a.work_days,
         absence_days |-> a.absence_days,
         unpaid_leave_days |-> a.unpaid_leave_days,
         assmat_leave_days |-> a.assmat_leave_days,
         holiday_days |-> a.holiday_days,
         salary_base |-> a.salary_base,
         salary_majoration |-> a.salary_majoration,
         salary_real_estimated |-> total_salary,
         fee_meal_days |-> a.fee_meal_days,
         fee_maintenance_days |-> a.fee_maintenance_days,
         fee_meal_total |-> a.fee_meal_total,
         fee_maintenance_total |-> a.fee_maintenance_total,
         unpaid_leave_deduction |-> a.unpaid_deduction,
         total_estimated |-> total_estimated,
         average_hours_per_day |-> average_hours]

\* the accumulators kept from the call before instead of starting at zero
SumCallKeepsTotals ==
    /\ pc = "call"
    /\ LET lists == build_settings_timeline_lists(contract, settings_snapshots)
       IN  settings' = lists.returned /\ settings_snapshots' = lists.snapshots
    /\ settings_index' = 0
    /\ workdays_by_date' = WorkdaysByDate(workdays)
    /\ iter_current' = start
    /\ pc' = "loop"
    /\ UNCHANGED <<contract, workdays, start, end, raised, current, day, summary, acc,
                   earlier, calcVars, storeVars, yearVars>>

\* summarize_period up to the loop: the timeline, the cursor at 0, the index
\* of the workdays by date, the accumulators at zero
SumCall ==
    /\ pc = "call"
    /\ LET lists == build_settings_timeline_lists(contract, settings_snapshots)
       IN  settings' = lists.returned /\ settings_snapshots' = lists.snapshots
    /\ settings_index' = 0
    /\ workdays_by_date' = WorkdaysByDate(workdays)
    /\ acc' = ZeroAcc
    /\ iter_current' = start
    /\ pc' = "loop"
    /\ UNCHANGED <<contract, workdays, start, end, raised, current, day, summary,
                   earlier, calcVars, storeVars, yearVars>>

\* one iteration of the loop; a ValueError of the calculations ends the call
SumDay ==
    /\ pc = "loop"
    /\ iter_days_yields(iter_current, end)
    /\ LET r == LoopBody(contract, settings, workdays_by_date, settings_index,
                         acc, iter_current)
       IN  /\ day' = iter_current
           /\ settings_index' = r.settings_index
           /\ current' = r.current
           /\ acc' = r.acc
           /\ pc' = IF r.failed THEN "raised" ELSE "loop"
           /\ raised' = IF r.failed THEN "ValueError" ELSE raised
           /\ iter_current' = IF r.failed THEN iter_current ELSE iter_current + 1
    /\ UNCHANGED <<sumArgs, settings, workdays_by_date, summary, earlier, calcVars, storeVars, yearVars>>

\* the loop is over: the final figures and the return
SumReturn ==
    /\ pc = "loop"
    /\ ~iter_days_yields(iter_current, end)
    /\ LET s == FinalSummary(acc, start, end)
       IN  IF IsError(s.average_hours_per_day)
           THEN pc' = "raised" /\ raised' = "ZeroDivisionError" /\ summary' = <<>>
           ELSE pc' = "done" /\ raised' = raised /\ summary' = <<s>>
    /\ UNCHANGED <<sumArgs, settings, settings_index, current, workdays_by_date,
                   iter_current, day, acc, earlier, calcVars, storeVars, yearVars>>

-----------------------------------------------------------------------------
(* The arguments summarize_period is checked with                          *)

MaxSnapshots == 2
MaxWorkdays == 2

\* 2025-01-01, 2025-01-15
SnapshotDates == {DateOrdinal(2025, 1, 1), DateOrdinal(2025, 1, 15)}
\* 2025-01-14, 2025-01-15
WorkdayDates == {DateOrdinal(2025, 1, 14), DateOrdinal(2025, 1, 15)}
\* January 2025 in full
FullMonth == <<DateOrdinal(2025, 1, 1), DateOrdinal(2025, 1, 31)>>
\* three days around the 15th, four days across the end of January, and an
\* empty period
Periods ==
    {<<DateOrdinal(2025, 1, 14), DateOrdinal(2025, 1, 16)>>,
     <<DateOrdinal(2025, 1, 30), DateOrdinal(2025, 2, 2)>>,
     <<DateOrdinal(2025, 1, 16), DateOrdinal(2025, 1, 14)>>}

\* the settings a snapshot may carry: the two of test_settings_history (the
\* second with a threshold and a majoration rate, and no meal fee), and one
\* with hours_per_week = 0
SettingsValues ==
    {[hours_per_week |-> N(40), weeks_per_year |-> N(52), hourly_rate |-> N(5),
      days_per_week |-> N(5), majoration_threshold |-> None,
      majoration_rate |-> None, fee_meal_amount |-> N(1),
      fee_maintenance_amount |-> N(2), salary_net_ceiling |-> None],
     [hours_per_week |-> N(20), weeks_per_year |-> N(52), hourly_rate |-> N(6),
      days_per_week |-> N(5), majoration_threshold |-> N(8),
      majoration_rate |-> Q(5, 4), fee_meal_amount |-> None,
      fee_maintenance_amount |-> Q(5, 2), salary_net_ceiling |-> None],
     [hours_per_week |-> N(0), weeks_per_year |-> N(52), hourly_rate |-> N(5),
      days_per_week |-> N(5), majoration_threshold |-> None,
      majoration_rate |-> None, fee_meal_amount |-> N(1),
      fee_maintenance_amount |-> N(2), salary_net_ceiling |-> None]}

SnapshotRows == {WithValidFrom(f, d) : f \in SettingsValues, d \in SnapshotDates}

\* the contract's own fields differ from every snapshot's: no days_per_week,
\* a threshold without a majoration rate, no maintenance fee
SumContracts ==
    {[start_date |-> DateOrdinal(2025, 1, 1), end_date |-> 0,
      hours_per_week |-> N(32), weeks_per_year |-> N(45), hourly_rate |-> N(3),
      days_per_week |-> None, majoration_threshold |-> N(8),
      majoration_rate |-> None, fee_meal_amount |-> N(3),
      fee_maintenance_amount |-> None, salary_net_ceiling |-> None]}

\* what a workday row may hold besides its date
WorkdayValues ==
    {[kind |-> NORMAL, hours |-> N(10), fee_meal |-> TRUE, fee_maintenance |-> TRUE],
     [kind |-> NORMAL, hours |-> N(6), fee_meal |-> TRUE, fee_maintenance |-> FALSE],
     [kind |-> NORMAL, hours |-> N(0), fee_meal |-> FALSE, fee_maintenance |-> FALSE],
     [kind |-> ABSENCE, hours |-> N(5), fee_meal |-> TRUE, fee_maintenance |-> TRUE],
     [kind |-> UNPAID_LEAVE, hours |-> N(0), fee_meal |-> FALSE, fee_maintenance |-> FALSE],
     [kind |-> ASSMAT_LEAVE, hours |-> N(0), fee_meal |-> TRUE, fee_maintenance |-> FALSE],
     [kind |-> HOLIDAY, hours |-> N(0), fee_meal |-> FALSE, fee_maintenance |-> TRUE]}

WorkdayRows ==
    {[date |-> d, hours |-> v.hours, kind |-> v.kind, fee_meal |-> v.fee_meal,
      fee_maintenance |-> v.fee_maintenance] : v \in WorkdayValues, d \in WorkdayDates}

\* the rows of list_workdays: ascending dates, one row per date
WorkdayLists ==
    {w \in SeqsUpTo(WorkdayRows, MaxWorkdays) :
        \A i \in 1..(Len(w) - 1) : w[i].date < w[i + 1].date}

\* the snapshot rows in any order
SnapshotLists == SeqsUpTo(SnapshotRows, MaxSnapshots)

\* no call of calculations.py is in progress
CalcIdle == calc_fn = "" /\ calc_args = <<>> /\ calc_result = <<>>

\* an empty database
StoreEmpty ==
    db_contracts = <<>> /\ db_snapshots = {} /\ db_workdays = {} /\ response = ""

\* no call of build_year_summary is in progress
YearIdle ==
    /\ year_pc = "idle"
    /\ year_call = <<>>
    /\ year_month = 0
    /\ monthly_items = <<>>
    /\ totals = <<>>

SumLocalsInit ==
    /\ pc = "call"
    /\ raised = ""
    /\ settings = <<>>
    /\ settings_index = 0
    /\ current = NoSettings
    /\ workdays_by_date = <<>>
    /\ iter_current = 0
    /\ day = 0
    /\ acc = ZeroAcc
    /\ summary = <<>>
    /\ earlier = {}

\* summarize_period called on a short period
InitSum ==
    /\ contract \in SumContracts
    /\ workdays \in WorkdayLists
    /\ settings_snapshots \in SnapshotLists
    /\ \E p \in Periods : start = p[1] /\ end = p[2]
    /\ SumLocalsInit
    /\ CalcIdle
    /\ StoreEmpty
    /\ YearIdle

\* summarize_period called on a short period or on a full month, with at most
\* one workday row
InitSumMonth ==
    /\ contract \in SumContracts
    /\ workdays \in {w \in WorkdayLists : Len(w) <= 1}
    /\ settings_snapshots \in SnapshotLists
    /\ \E p \in Periods \cup {FullMonth} : start = p[1] /\ end = p[2]
    /\ SumLocalsInit
    /\ CalcIdle
    /\ StoreEmpty
    /\ YearIdle

\* no call of summarize_period is in progress
SumIdle ==
    /\ contract \in SumContracts
    /\ workdays = <<>>
    /\ settings_snapshots = <<>>
    /\ start = 0
    /\ end = 0
    /\ SumLocalsInit

NextSum == SumCall \/ SumDay \/ SumReturn

SpecSum == InitSum /\ [][NextSum]_vars

\* summarize_period called on a short period with at most one workday row, a
\* day of 10 hours
InitSumFair ==
    /\ contract \in SumContracts
    /\ workdays \in {w \in WorkdayLists :
                        /\ Len(w) <= 1
                        /\ \A i \in DOMAIN w : w[i].kind = NORMAL /\ w[i].hours = N(10)}
    /\ settings_snapshots \in SnapshotLists
    /\ \E p \in Periods : start = p[1] /\ end = p[2]
    /\ SumLocalsInit
    /\ CalcIdle
    /\ StoreEmpty
    /\ YearIdle

\* what a step of NextSum does to the position in the code and to iter_days'
\* "current": SumCall enters the loop, SumDay goes to the next day or raises,
\* SumReturn ends the call
SumStep ==
    \/ pc = "call" /\ pc' = "loop" /\ iter_current' = start
    \/ /\ pc = "loop" /\ iter_days_yields(iter_current, end)
       /\ \/ pc' = "loop" /\ iter_current' = iter_current + 1
          \/ pc' = "raised" /\ iter_current' = iter_current
    \/ /\ pc = "loop" /\ ~iter_days_yields(iter_current, end)
       /\ pc' \in {"done", "raised"} /\ iter_current' = iter_current

\* summarize_period is sequential code: a call that has not ended takes its
\* next step.  Every step of NextSum is a SumStep and SumStep is enabled
\* exactly when NextSum is, so this is weak fairness of NextSum.
SpecSumFair == InitSumFair /\ [][NextSum]_vars /\ WF_<<pc, iter_current>>(SumStep)

SpecSumMonth == InitSumMonth /\ [][NextSum]_vars


-----------------------------------------------------------------------------
(* summarize_period called several times in a row                          *)

MaxCalls == 3

\* the arguments of the calls: no workday, a worked day or a day of unpaid
\* leave on 2025-01-15; no snapshot, a change on the 15th, or invalid settings
AgainWorkdayLists ==
    {w \in WorkdayLists :
        /\ Len(w) <= 1
        /\ \A i \in DOMAIN w :
              /\ w[i].date = DateOrdinal(2025, 1, 15)
              /\ (w[i].kind = NORMAL /\ w[i].hours = N(10)) \/ w[i].kind = UNPAID_LEAVE}
AgainSnapshotLists ==
    {q \in SnapshotLists :
        \/ q = <<>>
        \/ Len(q) = 1 /\ q[1].hours_per_week = N(0)
                      /\ q[1].valid_from = DateOrdinal(2025, 1, 1)
        \/ Len(q) = 2 /\ q[1].hours_per_week = N(40) /\ q[2].hours_per_week = N(20)
                      /\ q[1].valid_from < q[2].valid_from}
AgainPeriods ==
    {p \in Periods : p[1] = DateOrdinal(2025, 1, 14) \/ p[1] = DateOrdinal(2025, 1, 16)}

\* the call in progress with its outcome
ThisCall ==
    [contract |-> contract, workdays |-> workdays, snapshots |-> settings_snapshots,
     start |-> start, end |-> end, raised |-> raised, summary |-> summary]

\* the call has ended and summarize_period is called again: new arguments and
\* a new frame, in which no local is bound yet (the model's variables keep
\* the values the call before left in them until this call assigns them)
SumAgain ==
    /\ pc \in {"done", "raised"}
    /\ Cardinality(earlier \cup {ThisCall}) < MaxCalls
    /\ earlier' = earlier \cup {ThisCall}
    /\ contract' \in SumContracts
    /\ workdays' \in AgainWorkdayLists
    /\ settings_snapshots' \in AgainSnapshotLists
    /\ \E p \in AgainPeriods : start' = p[1] /\ end' = p[2]
    /\ pc' = "call"
    /\ raised' = ""
    /\ summary' = <<>>
    /\ UNCHANGED <<settings, settings_index, current, workdays_by_date, iter_current,
                   day, acc, calcVars, storeVars, yearVars>>

InitSumAgain ==
    /\ contract \in SumContracts
    /\ workdays \in AgainWorkdayLists
    /\ settings_snapshots \in AgainSnapshotLists
    /\ \E p \in AgainPeriods : start = p[1] /\ end = p[2]
    /\ SumLocalsInit
    /\ CalcIdle
    /\ StoreEmpty
    /\ YearIdle

NextSumAgain == SumCall \/ SumDay \/ SumReturn \/ SumAgain

SpecSumAgain == InitSumAgain /\ [][NextSumAgain]_vars

-----------------------------------------------------------------------------
(* summarize_period called with settings that are not all positive        *)

\* the first settings of test_settings_history and three copies of them with
\* one parameter made non-positive
InvalidSettingsValues ==
    LET good == CHOOSE f \in SettingsValues :
                    f.hours_per_week = N(40) /\ f.hourly_rate = N(5)
    IN  {good,
         [good EXCEPT !.hours_per_week = N(0)],
         [good EXCEPT !.weeks_per_year = N(-1)],
         [good EXCEPT !.hourly_rate = N(0)]}

InvalidSnapshotLists ==
    SeqsUpTo({WithValidFrom(f, d) : f \in InvalidSettingsValues, d \in SnapshotDates},
             MaxSnapshots)

InitSumInvalid ==
    /\ contract \in SumContracts
    /\ workdays \in AgainWorkdayLists
    /\ settings_snapshots \in InvalidSnapshotLists
    /\ \E p \in Periods : start = p[1] /\ end = p[2]
    /\ SumLocalsInit
    /\ CalcIdle
    /\ StoreEmpty
    /\ YearIdle

SpecSumInvalid == InitSumInvalid /\ [][NextSum]_vars

-----------------------------------------------------------------------------
(* Calls of the functions of calculations.py, one call per behaviour       *)

MaxCalcWorkdays == 2
MaxDayCount == 2

\* the WorkdayFacts a call is given: 0, 6, 7.5 or 10 hours, worked or absent
CalcWorkdayFacts ==
    {[day |-> DateOrdinal(2025, 2, 1), hours |-> h, kind |-> k] :
        h \in {N(0), N(6), Q(15, 2), N(10)}, k \in {NORMAL, ABSENCE}}
CalcWorkdayLists == SeqsUpTo(CalcWorkdayFacts, MaxCalcWorkdays)
CalcHourlyRates == {N(4), N(5)}
CalcThresholds == {None, N(8)}
CalcMajorationRates == {None, Q(5, 4)}
CalcIncludeKinds == {{NORMAL}, {NORMAL, ABSENCE}}

\* workday_totals(workdays, hourly_rate=, majoration_threshold=, majoration_rate=,
\* include_kinds=)
CallWorkdayTotals ==
    /\ calc_fn = ""
    /\ \E wds \in CalcWorkdayLists, rate \in CalcHourlyRates, thr \in CalcThresholds,
          mrate \in CalcMajorationRates, kinds \in CalcIncludeKinds :
          /\ calc_args' = [workdays |-> wds, hourly_rate |-> rate,
                           majoration_threshold |-> thr, majoration_rate |-> mrate,
                           include_kinds |-> kinds]
          /\ calc_result' = workday_totals(wds, rate, thr, mrate, kinds)
    /\ calc_fn' = "workday_totals"
    /\ UNCHANGED <<sumVars, storeVars, yearVars>>

\* unpaid_leave_deduction(day_count, hours_per_week=, days_per_week=, hourly_rate=)
CallUnpaidLeaveDeduction ==
    /\ calc_fn = ""
    /\ \E n \in 0..MaxDayCount, hpw \in {N(20), N(40)}, dpw \in {None, N(4), N(5)},
          rate \in {N(5), N(6)} :
          /\ calc_args' = [day_count |-> n, hours_per_week |-> hpw,
                           days_per_week |-> dpw, hourly_rate |-> rate]
          /\ calc_result' = unpaid_leave_deduction(n, hpw, dpw, rate)
    /\ calc_fn' = "unpaid_leave_deduction"
    /\ UNCHANGED <<sumVars, storeVars, yearVars>>

\* times of day: 00:00:00 to 23:30:59
CalcTimes ==
    {[hour |-> h, minute |-> mi, second |-> sec] :
        h \in {0, 9, 17, 23}, mi \in {0, 30}, sec \in {0, 59}}

\* hours_between_times(start, end)
CallHoursBetweenTimes ==
    /\ calc_fn = ""
    /\ \E t1 \in CalcTimes, t2 \in CalcTimes :
          /\ calc_args' = [start |-> t1, end |-> t2]
          /\ calc_result' = hours_between_times(t1, t2)
    /\ calc_fn' = "hours_between_times"
    /\ UNCHANGED <<sumVars, storeVars, yearVars>>

\* ContractFacts with negative, zero and positive parameters
CalcContractFacts ==
    {[start_date |-> DateOrdinal(2025, 1, 1), end_date |-> 0,
      hours_per_week |-> h, weeks_per_year |-> w, hourly_rate |-> r] :
        h \in {N(-1), N(0), Q(75, 2), N(40)}, w \in {N(-1), N(0), N(45)},
        r \in {N(-1), N(0), N(5)}}

\* contract_monthly_hours(contract)
CallContractMonthlyHours ==
    /\ calc_fn = ""
    /\ \E facts \in CalcContractFacts :
          /\ calc_args' = [contract |-> facts]
          /\ calc_result' = contract_monthly_hours(facts)
    /\ calc_fn' = "contract_monthly_hours"
    /\ UNCHANGED <<sumVars, storeVars, yearVars>>

\* contract_monthly_salary(contract)
CallContractMonthlySalary ==
    /\ calc_fn = ""
    /\ \E facts \in CalcContractFacts :
          /\ calc_args' = [contract |-> facts]
          /\ calc_result' = contract_monthly_salary(facts)
    /\ calc_fn' = "contract_monthly_salary"
    /\ UNCHANGED <<sumVars, storeVars, yearVars>>

\* the WorkdayFacts hours_in_period is given: 1, 2 or 3 February 2025; -1, 4
\* or 8 hours; worked or absent
CalcPeriodFacts ==
    {[day |-> DateOrdinal(2025, 2, dd), hours |-> h, kind |-> k] :
        dd \in {1, 2, 3}, h \in {N(-1), N(4), N(8)}, k \in {NORMAL, ABSENCE}}
CalcPeriodLists == SeqsUpTo(CalcPeriodFacts, MaxCalcWorkdays)
\* 1-2 February, 2-3 February, and a period that ends before it starts
CalcPeriods ==
    {[start |-> DateOrdinal(2025, 2, 1), end |-> DateOrdinal(2025, 2, 2)],
     [start |-> DateOrdinal(2025, 2, 2), end |-> DateOrdinal(2025, 2, 3)],
     [start |-> DateOrdinal(2025, 2, 3), end |-> DateOrdinal(2025, 2, 1)]}

\* hours_in_period(workdays, period, include_kinds=)
CallHoursInPeriod ==
    /\ calc_fn = ""
    /\ \E wds \in CalcPeriodLists, period \in CalcPeriods,
          kinds \in CalcIncludeKinds \cup {NoKinds} :
          /\ calc_args' = [workdays |-> wds, period |-> period, include_kinds |-> kinds]
          /\ calc_result' = hours_in_period(wds, period, kinds)
    /\ calc_fn' = "hours_in_period"
    /\ UNCHANGED <<sumVars, storeVars, yearVars>>

\* paid_leave_value(method=, days_taken=, daily_reference_hours=, hourly_rate=,
\* dixieme_reference_amount=)
CallPaidLeaveValue ==
    /\ calc_fn = ""
    /\ \E method \in PaidLeaveMethod, days \in {N(-1), N(0), N(2), Q(5, 2)},
          ref \in {N(-1), N(0), N(8)}, rate \in {N(-1), N(0), N(5)},
          amount \in {None, N(-1), N(0), N(120)} :
          /\ calc_args' = [method |-> method, days_taken |-> days,
                           daily_reference_hours |-> ref, hourly_rate |-> rate,
                           dixieme_reference_amount |-> amount]
          /\ calc_result' = paid_leave_value(method, days, ref, rate, amount)
    /\ calc_fn' = "paid_leave_value"
    /\ UNCHANGED <<sumVars, storeVars, yearVars>>

InitCalc == SumIdle /\ CalcIdle /\ StoreEmpty /\ YearIdle

NextCalc ==
    \/ CallWorkdayTotals
    \/ CallUnpaidLeaveDeduction
    \/ CallHoursBetweenTimes
    \/ CallContractMonthlyHours
    \/ CallContractMonthlySalary
    \/ CallHoursInPeriod
    \/ CallPaidLeaveValue

SpecCalc == InitCalc /\ [][NextCalc]_vars

-----------------------------------------------------------------------------
(* The database and the requests of app.py that write contracts and        *)
(* settings snapshots.  db_contracts[id] is the contract row of that id,   *)
(* db_snapshots the contract_settings_snapshot table.  A request works in  *)
(* a session of its own: the rows it selects come from the table, the rows *)
(* it adds or deletes are pending until commit (autoflush is off, so a     *)
(* select never sees them), and commit writes them all or fails.           *)

MaxContracts == 1

\* the dates a form may carry: 2025-01-01, 2025-01-15, 2025-02-01
StoreDates ==
    {DateOrdinal(2025, 1, 1), DateOrdinal(2025, 1, 15), DateOrdinal(2025, 2, 1)}
\* the parameters a form may carry
StoreSettings == {f \in SettingsValues : _assert_positive(f.hours_per_week)}
\* the contract ids a request may name
ContractIds == 1..MaxContracts

SnapshotRow(contract_id, valid_from, f) ==
    [contract_id |-> contract_id, valid_from |-> valid_from,
     hours_per_week |-> f.hours_per_week, weeks_per_year |-> f.weeks_per_year,
     hourly_rate |-> f.hourly_rate, days_per_week |-> f.days_per_week,
     majoration_threshold |-> f.majoration_threshold,
     majoration_rate |-> f.majoration_rate, fee_meal_amount |-> f.fee_meal_amount,
     fee_maintenance_amount |-> f.fee_maintenance_amount,
     salary_net_ceiling |-> f.salary_net_ceiling]

ContractRow(start_date, end_date, f) ==
    [start_date |-> start_date, end_date |-> end_date,
     hours_per_week |-> f.hours_per_week, weeks_per_year |-> f.weeks_per_year,
     hourly_rate |-> f.hourly_rate, days_per_week |-> f.days_per_week,
     majoration_threshold |-> f.majoration_threshold,
     majoration_rate |-> f.majoration_rate, fee_meal_amount |-> f.fee_meal_amount,
     fee_maintenance_amount |-> f.fee_maintenance_amount,
     salary_net_ceiling |-> f.salary_net_ceiling]

\* SessionLocal(): the session of one request
SessionLocal == [snapshots |-> db_snapshots, added |-> <<>>, deleted |-> {}]

\* crud.get_contract: db.get(Contract, contract_id) is None for an unknown id
get_contract_found(contract_id) == contract_id \in DOMAIN db_contracts

\* crud.get_settings_snapshot: the rows the select returns (none or one)
get_settings_snapshot(db, contract_id, valid_from) ==
    {r \in db.snapshots : r.contract_id = contract_id /\ r.valid_from = valid_from}

\* crud.list_settings_snapshots: the contract's rows (their order is not used here)
list_settings_snapshots(db, contract_id) ==
    {r \in db.snapshots : r.contract_id = contract_id}

\* an upsert that never looks for the row of the date: always db.add
upsert_settings_snapshot_always_adds(db, contract_id, valid_from, f) ==
    [db EXCEPT !.added = Append(@, SnapshotRow(contract_id, valid_from, f))]

\* crud.upsert_settings_snapshot: overwrite the selected row, or db.add a new one
upsert_settings_snapshot(db, contract_id, valid_from, f) ==
    LET existing == get_settings_snapshot(db, contract_id, valid_from)
    IN  IF existing # {}
        THEN [db EXCEPT !.snapshots =
                 (@ \ existing) \cup {SnapshotRow(contract_id, valid_from, f)}]
        ELSE [db EXCEPT !.added = Append(@, SnapshotRow(contract_id, valid_from, f))]

\* crud.delete_settings_snapshot: db.delete of the selected row; returns False
\* when there is none
crud_delete_settings_snapshot(db, contract_id, valid_from) ==
    [db EXCEPT !.deleted = @ \cup get_settings_snapshot(db, contract_id, valid_from)]

SnapshotKey(r) == <<r.contract_id, r.valid_from>>

\* the flush of db.commit() raises IntegrityError when two rows would hold the
\* same (contract_id, valid_from): uq_contract_snapshot_valid_from
IntegrityError(db) ==
    \/ \E i, j \in DOMAIN db.added :
          i # j /\ SnapshotKey(db.added[i]) = SnapshotKey(db.added[j])
    \/ \E i \in DOMAIN db.added, r \in db.snapshots :
          SnapshotKey(db.added[i]) = SnapshotKey(r)

\* the table after db.commit()
Committed(db) ==
    (db.snapshots \ db.deleted) \cup {db.added[i] : i \in DOMAIN db.added}

\* POST /contracts/new
create_contract ==
    /\ Len(db_contracts) < MaxContracts
    /\ \E start_date \in StoreDates, f \in StoreSettings :
          LET id == Len(db_contracts) + 1
              c == ContractRow(start_date, 0, f)
              db == upsert_settings_snapshot(SessionLocal, id, c.start_date,
                                             SettingsFields(c))
          IN  /\ db_contracts' = Append(db_contracts, c)
              /\ db_snapshots' = Committed(db)
              /\ response' = "saved"
              /\ UNCHANGED db_workdays
    /\ UNCHANGED <<sumVars, calcVars, yearVars>>

\* the request ends without a commit: the session is closed, nothing is written
RequestFails(status) ==
    /\ response' = status
    /\ UNCHANGED <<db_contracts, db_snapshots, db_workdays>>

\* POST /contracts/{contract_id}/settings
\* the handler for one submitted form
SubmitContractSettings(contract_id, start_date, effective_from, f) ==
    IF ~get_contract_found(contract_id) THEN RequestFails("not_found")
    ELSE
      LET previous_values == SettingsFields(db_contracts[contract_id])
          c == ContractRow(start_date, 0, f)
          db0 == SessionLocal
          snapshots == list_settings_snapshots(db0, contract_id)
          db1 == IF snapshots = {}
                 THEN upsert_settings_snapshot(db0, contract_id, c.start_date,
                                               previous_values)
                 ELSE db0
          db2 == upsert_settings_snapshot(db1, contract_id, effective_from,
                                          SettingsFields(c))
      IN  IF IntegrityError(db2) THEN RequestFails("integrity_error")
          ELSE /\ db_contracts' = [db_contracts EXCEPT ![contract_id] = c]
               /\ db_snapshots' = Committed(db2)
               /\ response' = "saved"
               /\ UNCHANGED db_workdays

save_contract_settings ==
    /\ \E contract_id \in ContractIds, start_date \in StoreDates,
          effective_from \in StoreDates, f \in StoreSettings :
          SubmitContractSettings(contract_id, start_date, effective_from, f)
    /\ UNCHANGED <<sumVars, calcVars, yearVars>>

\* POST /contracts/{contract_id}/settings_snapshot
\* the handler without the test "if existing": the date is changed whether
\* or not another snapshot holds the new one
SubmitSettingsSnapshotUnchecked(contract_id, original_valid_from, valid_from, f) ==
    LET db0 == SessionLocal
        snapshot == get_settings_snapshot(db0, contract_id, original_valid_from)
        db1 == IF valid_from # original_valid_from
               THEN crud_delete_settings_snapshot(db0, contract_id, original_valid_from)
               ELSE db0
        db2 == upsert_settings_snapshot(db1, contract_id, valid_from, f)
    IN  IF ~get_contract_found(contract_id) THEN RequestFails("not_found")
        ELSE IF snapshot = {} THEN RequestFails("not_found")
        ELSE IF IntegrityError(db2) THEN RequestFails("integrity_error")
        ELSE /\ db_snapshots' = Committed(db2)
             /\ response' = "saved"
             /\ UNCHANGED <<db_contracts, db_workdays>>

\* the handler for one submitted form
SubmitSettingsSnapshot(contract_id, original_valid_from, valid_from, f) ==
    LET db0 == SessionLocal
        snapshot == get_settings_snapshot(db0, contract_id, original_valid_from)
        existing == get_settings_snapshot(db0, contract_id, valid_from)
        db1 == IF valid_from # original_valid_from
               THEN crud_delete_settings_snapshot(db0, contract_id, original_valid_from)
               ELSE db0
        db2 == upsert_settings_snapshot(db1, contract_id, valid_from, f)
    IN  IF ~get_contract_found(contract_id) THEN RequestFails("not_found")
        ELSE IF snapshot = {} THEN RequestFails("not_found")
        ELSE IF valid_from # original_valid_from /\ existing # {}
             THEN RequestFails("error")
        ELSE IF IntegrityError(db2) THEN RequestFails("integrity_error")
        ELSE /\ db_snapshots' = Committed(db2)
             /\ response' = "saved"
             /\ UNCHANGED <<db_contracts, db_workdays>>

save_settings_snapshot ==
    /\ \E contract_id \in ContractIds, original_valid_from \in StoreDates,
          valid_from \in StoreDates, f \in StoreSettings :
          SubmitSettingsSnapshot(contract_id, original_valid_from, valid_from, f)
    /\ UNCHANGED <<sumVars, calcVars, yearVars>>

\* POST /contracts/{contract_id}/settings_snapshot/delete
delete_settings_snapshot ==
    /\ \E contract_id \in ContractIds, valid_from \in StoreDates :
          LET db0 == SessionLocal
              deleted == get_settings_snapshot(db0, contract_id, valid_from) # {}
              db1 == crud_delete_settings_snapshot(db0, contract_id, valid_from)
          IN  IF ~get_contract_found(contract_id) THEN RequestFails("not_found")
              ELSE IF ~deleted THEN RequestFails("not_found")
              ELSE /\ db_snapshots' = Committed(db1)
                   /\ response' = "deleted"
                   /\ UNCHANGED <<db_contracts, db_workdays>>
    /\ UNCHANGED <<sumVars, calcVars, yearVars>>

\* an empty database, before any request
Init == SumIdle /\ CalcIdle /\ StoreEmpty /\ YearIdle

Next ==
    \/ create_contract
    \/ save_contract_settings
    \/ save_settings_snapshot
    \/ delete_settings_snapshot

Spec == Init /\ [][Next]_vars

-----------------------------------------------------------------------------
(* app.py: summarize_period as one call, and build_year_summary            *)

RECURSIVE SumLoop(_, _, _, _, _, _, _)
\* "for day in iter_days(start, end)" from day d on, run to its end
SumLoop(c, tl, by_date, idx, a, d, last) ==
    IF ~iter_days_yields(d, last) THEN [acc |-> a, failed |-> FALSE]
    ELSE LET r == LoopBody(c, tl, by_date, idx, a, d)
         IN  IF r.failed THEN [acc |-> r.acc, failed |-> TRUE]
             ELSE SumLoop(c, tl, by_date, r.settings_index, r.acc, d + 1, last)

\* the settings in force on the first day applied to every day of the period
summarize_period_settings_of_first_day(c, wds, snapshots, period_start, period_end) ==
    LET tl == build_settings_timeline(c, snapshots)
        r == SumLoop(c, <<At(tl, AdvanceSettingsIndex(tl, 0, period_start))>>,
                     WorkdaysByDate(wds), 0, ZeroAcc, period_start, period_end)
        s == FinalSummary(r.acc, period_start, period_end)
    IN  IF r.failed THEN [raised |-> "ValueError", summary |-> <<>>]
        ELSE IF IsError(s.average_hours_per_day)
             THEN [raised |-> "ZeroDivisionError", summary |-> <<>>]
        ELSE [raised |-> "", summary |-> <<s>>]

\* summarize_period(contract, workdays, snapshots, start=, end=): the exception
\* raised ("" when none) and the summary returned
summarize_period(c, wds, snapshots, period_start, period_end) ==
    LET tl == build_settings_timeline(c, snapshots)
        r == SumLoop(c, tl, WorkdaysByDate(wds), 0, ZeroAcc, period_start, period_end)
        s == FinalSummary(r.acc, period_start, period_end)
    IN  IF r.failed THEN [raised |-> "ValueError", summary |-> <<>>]
        ELSE IF IsError(s.average_hours_per_day)
             THEN [raised |-> "ZeroDivisionError", summary |-> <<>>]
        ELSE [raised |-> "", summary |-> <<s>>]

\* year_bounds(year)
year_bounds(year) == <<DateOrdinal(year, 1, 1), DateOrdinal(year, 12, 31)>>

RECURSIVE OrderedBy(_, _)
\* the rows of S in ascending order of key[r] (the keys of S are distinct)
OrderedBy(S, key) ==
    IF S = {} THEN <<>>
    ELSE LET first == CHOOSE r \in S : \A q \in S : key[r] <= key[q]
         IN  <<first>> \o OrderedBy(S \ {first}, key)

\* crud.list_workdays(db, contract_id, start, end) on the table
list_workdays(rows, contract_id, from, to) ==
    LET found == {r \in rows : r.contract_id = contract_id /\ r.date >= from /\ r.date <= to}
    IN  OrderedBy(found, [r \in found |-> r.date])

\* crud.list_settings_snapshots(db, contract_id) on the table, in its order
list_settings_snapshots_ordered(rows, contract_id) ==
    LET found == {r \in rows : r.contract_id = contract_id}
    IN  OrderedBy(found, [r \in found |-> r.valid_from])

\* totals = {"hours_real": 0.0, ...}
ZeroYearTotals ==
    [hours_real |-> Zero, hours_normal |-> Zero, hours_majorated |-> Zero,
     work_days |-> 0, absence_days |-> 0, unpaid_leave_days |-> 0,
     assmat_leave_days |-> 0, holiday_days |-> 0,
     salary_base |-> Zero, salary_majoration |-> Zero, salary_real_estimated |-> Zero,
     fee_meal_days |-> 0, fee_maintenance_days |-> 0,
     fee_meal_total |-> Zero, fee_maintenance_total |-> Zero,
     unpaid_leave_deduction |-> Zero, total_estimated |-> Zero,
     yearly_hours_theoretical |-> Zero, yearly_salary_theoretical |-> Zero]

\* the nineteen "totals[...] += summary...." of one month
AddMonthToTotals(t, s) ==
    [hours_real |-> RAdd(t.hours_real, s.hours_real),
     hours_normal |-> RAdd(t.hours_normal, s.hours_normal),
     hours_majorated |-> RAdd(t.hours_majorated, s.hours_majorated),
     work_days |-> t.work_days + s.work_days,
     absence_days |-> t.absence_days + s.absence_days,
     unpaid_leave_days |-> t.unpaid_leave_days + s.unpaid_leave_days,
     assmat_leave_days |-> t.assmat_leave_days + s.assmat_leave_days,
     holiday_days |-> t.holiday_days + s.holiday_days,
     salary_base |-> RAdd(t.salary_base, s.salary_base),
     salary_majoration |-> RAdd(t.salary_majoration, s.salary_majoration),
     salary_real_estimated |-> RAdd(t.salary_real_estimated, s.salary_real_estimated),
     fee_meal_days |-> t.fee_meal_days + s.fee_meal_days,
     fee_maintenance_days |-> t.fee_maintenance_days + s.fee_maintenance_days,
     fee_meal_total |-> RAdd(t.fee_meal_total, s.fee_meal_total),
     fee_maintenance_total |-> RAdd(t.fee_maintenance_total, s.fee_maintenance_total),
     unpaid_leave_deduction |-> RAdd(t.unpaid_leave_deduction, s.unpaid_leave_deduction),
     total_estimated |-> RAdd(t.total_estimated, s.total_estimated),
     yearly_hours_theoretical |->
         RAdd(t.yearly_hours_theoretical, s.monthly_hours_theoretical),
     yearly_salary_theoretical |->
         RAdd(t.yearly_salary_theoretical, s.monthly_salary_theoretical)]

\* the filter on the day of the month instead of the month
MonthWorkdaysByDay(wds, month) == SelectSeq(wds, LAMBDA wd : DayOfMonth(wd.date) = month)

\* month_workdays = [wd for wd in workdays if wd.date.month == month]
MonthWorkdays(wds, month) == SelectSeq(wds, LAMBDA wd : MonthOf(wd.date) = month)

RECURSIVE SumOfMonthlyAverages(_)
SumOfMonthlyAverages(items) ==
    IF items = <<>> THEN Zero
    ELSE RAdd(Head(items).summary.average_hours_per_day,
              SumOfMonthlyAverages(Tail(items)))

\* the mean of the twelve monthly averages
YearAverageOfMonths(t, items) == RDiv(SumOfMonthlyAverages(items), N(12))

\* average_hours = totals["hours_real"] / totals["work_days"] if totals["work_days"] else 0.0
YearAverage(t, items) ==
    IF t.work_days # 0 THEN RDiv(t.hours_real, N(t.work_days)) ELSE Zero

\* hours_delta = totals["hours_real"] - totals["yearly_hours_theoretical"]
YearHoursDelta(t) == RSub(t.hours_real, t.yearly_hours_theoretical)

MaxYearWorkdays == 2

\* the years asked for
Years == {2025, 2026}
\* 2025-01-31, 2025-02-01, 2025-12-31 and 2026-01-01
YearWorkdayDates ==
    {DateOrdinal(2025, 1, 31), DateOrdinal(2025, 2, 1), DateOrdinal(2025, 12, 31),
     DateOrdinal(2026, 1, 1)}
\* a worked day of 10 hours with both fees, and a day of unpaid leave
YearWorkdayValues ==
    {v \in WorkdayValues : (v.kind = NORMAL /\ v.hours = N(10)) \/ v.kind = UNPAID_LEAVE}
YearWorkdayRows ==
    {[contract_id |-> 1, date |-> d, hours |-> v.hours, kind |-> v.kind,
      fee_meal |-> v.fee_meal, fee_maintenance |-> v.fee_maintenance] :
        v \in YearWorkdayValues, d \in YearWorkdayDates}
\* the contents of table workday: one row per date
YearWorkdayTables ==
    {T \in SUBSET YearWorkdayRows :
        /\ Cardinality(T) <= MaxYearWorkdays
        /\ \A r, q \in T : r.date = q.date => r = q}
\* the first settings from 2025-01-01; the second or the invalid ones from 2025-07-15
YearSnapshotRows ==
    {SnapshotRow(1, IF f.hourly_rate = N(5) /\ f.hours_per_week = N(40)
                    THEN DateOrdinal(2025, 1, 1) ELSE DateOrdinal(2025, 7, 15), f) :
        f \in SettingsValues}
\* the contents of table contract_settings_snapshot: one row per date
YearSnapshotTables ==
    {T \in SUBSET YearSnapshotRows : \A r, q \in T : r.valid_from = q.valid_from => r = q}

\* build_year_summary(contract_id, year) up to the loop
YearCall ==
    /\ year_pc = "idle"
    /\ \E contract_id \in ContractIds \cup {MaxContracts + 1}, year \in Years :
          IF ~get_contract_found(contract_id)
          THEN /\ year_pc' = "raised"
               /\ UNCHANGED <<year_call, year_month, monthly_items, totals>>
          ELSE /\ year_call' =
                      [contract |-> db_contracts[contract_id],
                       year |-> year,
                       period_start |-> year_bounds(year)[1],
                       period_end |-> year_bounds(year)[2],
                       workdays |-> list_workdays(db_workdays, contract_id,
                                                  year_bounds(year)[1],
                                                  year_bounds(year)[2]),
                       snapshots |-> list_settings_snapshots_ordered(db_snapshots,
                                                                     contract_id)]
               /\ monthly_items' = <<>>
               /\ totals' = ZeroYearTotals
               /\ year_month' = 1
               /\ year_pc' = "loop"
    /\ UNCHANGED <<sumVars, calcVars, storeVars>>

\* one iteration of "for month in range(1, 13)"
YearMonth ==
    /\ year_pc = "loop"
    /\ year_month <= 12
    /\ LET month_start == DateOrdinal(year_call.year, year_month, 1)
           month_end == DateOrdinal(year_call.year, year_month,
                                    monthrange(year_call.year, year_month))
           month_workdays == MonthWorkdays(year_call.workdays, year_month)
       IN  \E r \in {summarize_period(year_call.contract, month_workdays,
                                      year_call.snapshots, month_start, month_end)} :
           IF r.raised # ""
           THEN /\ year_pc' = "raised"
                /\ UNCHANGED <<year_month, monthly_items, totals>>
           ELSE /\ monthly_items' =
                       Append(monthly_items,
                              [month |-> year_month, summary |-> r.summary[1]])
                /\ totals' = AddMonthToTotals(totals, r.summary[1])
                /\ year_month' = year_month + 1
                /\ year_pc' = "loop"
    /\ UNCHANGED <<year_call, sumVars, calcVars, storeVars>>

\* after the loop: hours_delta, average_hours_per_day and the return
YearReturn ==
    /\ year_pc = "loop"
    /\ year_month > 12
    /\ totals' = ("hours_delta" :> YearHoursDelta(totals)
                  @@ "average_hours_per_day" :> YearAverage(totals, monthly_items)
                  @@ totals)
    /\ year_pc' = "done"
    /\ UNCHANGED <<year_call, year_month, monthly_items, sumVars, calcVars, storeVars>>

\* a database holding one contract, its snapshots and its workdays
InitYear ==
    /\ SumIdle
    /\ CalcIdle
    /\ YearIdle
    /\ db_contracts = <<CHOOSE c \in SumContracts : TRUE>>
    /\ db_snapshots \in YearSnapshotTables
    /\ db_workdays \in YearWorkdayTables
    /\ response = ""

NextYear == YearCall \/ YearMonth \/ YearReturn

SpecYear == InitYear /\ [][NextYear]_vars

-----------------------------------------------------------------------------
(* Calls of build_settings_timeline                                        *)

MaxTimelineSnapshots == 3

\* the contract of test_settings_history, and one that starts on 2025-01-15
TimelineContracts ==
    SumContracts \cup
        {[c EXCEPT !.start_date = DateOrdinal(2025, 1, 15), !.hourly_rate = N(4)] :
            c \in SumContracts}

\* rows of contract_settings_snapshot in any order
TimelineSnapshotLists ==
    SeqsUpTo({SnapshotRow(1, d, f) : d \in StoreDates, f \in StoreSettings},
             MaxTimelineSnapshots)

\* build_settings_timeline(contract, snapshots)
CallBuildSettingsTimeline ==
    /\ calc_fn = ""
    /\ \E c \in TimelineContracts, snapshots \in TimelineSnapshotLists :
          /\ calc_args' = [contract |-> c, snapshots |-> snapshots]
          /\ calc_result' = build_settings_timeline(c, snapshots)
    /\ calc_fn' = "build_settings_timeline"
    /\ UNCHANGED <<sumVars, storeVars, yearVars>>

SpecTimeline == InitCalc /\ [][CallBuildSettingsTimeline]_vars

-----------------------------------------------------------------------------
(* The requests of app.py that write workdays.  As for the snapshots, a    *)
(* request works in a session of its own: its selects read the table, the *)
(* rows it adds or deletes are pending until commit.                       *)

MaxBulkDays == 2

\* the days a form may name: 2025-01-14, 2025-01-15
WorkdayFormDates == {DateOrdinal(2025, 1, 14), DateOrdinal(2025, 1, 15)}

\* the "days" field of the bulk forms once split and parsed: any days, a day
\* possibly named more than once
BulkDayLists == SeqsUpTo(WorkdayFormDates, MaxBulkDays)

\* a time of d as a form field: <<>> when the field is empty
TimeOfDay(h, mi) == <<[hour |-> h, minute |-> mi, second |-> 0]>>

\* the other fields of the workday forms: a day worked 09:00-17:00, a worked
\* day whose times are in the wrong order, one without times, and an absence
\* sent with times
WorkdayForms ==
    {[kind |-> NORMAL, start_time |-> TimeOfDay(9, 0), end_time |-> TimeOfDay(17, 0),
      fee_meal |-> TRUE, fee_maintenance |-> FALSE],
     [kind |-> NORMAL, start_time |-> TimeOfDay(17, 0), end_time |-> TimeOfDay(9, 0),
      fee_meal |-> TRUE, fee_maintenance |-> FALSE],
     [kind |-> NORMAL, start_time |-> <<>>, end_time |-> <<>>,
      fee_meal |-> FALSE, fee_maintenance |-> FALSE],
     [kind |-> ABSENCE, start_time |-> TimeOfDay(9, 0), end_time |-> TimeOfDay(17, 0),
      fee_meal |-> FALSE, fee_maintenance |-> TRUE]}

\* the WorkdayUpsertIn payloads of the JSON API besides the date: 6 hours
\* worked, and a negative number of hours
WorkdayPayloads ==
    {[hours |-> N(6), kind |-> NORMAL, start_time |-> <<>>, end_time |-> <<>>,
      fee_meal |-> FALSE, fee_maintenance |-> TRUE],
     [hours |-> N(-1), kind |-> NORMAL, start_time |-> <<>>, end_time |-> <<>>,
      fee_meal |-> FALSE, fee_maintenance |-> FALSE]}

WorkdayRow(contract_id, d, hours, v) ==
    [contract_id |-> contract_id, date |-> d, hours |-> hours, kind |-> v.kind,
     start_time |-> v.start_time, end_time |-> v.end_time,
     fee_meal |-> v.fee_meal, fee_maintenance |-> v.fee_maintenance]

\* SessionLocal() as the workday requests use it
WorkdaySession == [workdays |-> db_workdays, added |-> <<>>, deleted |-> {}]

\* "select(Workday).where(contract_id ==, date ==)": the rows found (none or one)
SelectWorkday(db, contract_id, d) ==
    {r \in db.workdays : r.contract_id = contract_id /\ r.date = d}

\* crud.upsert_workday: overwrite the selected row, or db.add a new one
upsert_workday(db, contract_id, d, hours, v) ==
    LET existing == SelectWorkday(db, contract_id, d)
        row == WorkdayRow(contract_id, d, hours, v)
    IN  IF existing # {}
        THEN [db EXCEPT !.workdays = (@ \ existing) \cup {row}]
        ELSE [db EXCEPT !.added = Append(@, row)]

\* crud.delete_workday: db.delete of the selected row
crud_delete_workday(db, contract_id, d) ==
    [db EXCEPT !.deleted = @ \cup SelectWorkday(db, contract_id, d)]

RECURSIVE UpsertEach(_, _, _, _, _)
\* "for day in day_list: crud.upsert_workday(...)"
UpsertEach(db, contract_id, day_list, hours, v) ==
    IF day_list = <<>> THEN db
    ELSE UpsertEach(upsert_workday(db, contract_id, Head(day_list), hours, v),
                    contract_id, Tail(day_list), hours, v)

RECURSIVE DeleteEach(_, _, _)
\* "for day in day_list: crud.delete_workday(...)"
DeleteEach(db, contract_id, day_list) ==
    IF day_list = <<>> THEN db
    ELSE DeleteEach(crud_delete_workday(db, contract_id, Head(day_list)),
                    contract_id, Tail(day_list))

WorkdayKey(r) == <<r.contract_id, r.date>>

\* the flush of db.commit() violates uq_workday_contract_date
WorkdayUniqueViolation(db) ==
    \/ \E i, j \in DOMAIN db.added :
          i # j /\ WorkdayKey(db.added[i]) = WorkdayKey(db.added[j])
    \/ \E i \in DOMAIN db.added, r \in db.workdays :
          WorkdayKey(db.added[i]) = WorkdayKey(r)

\* the flush of db.commit() violates the foreign key workday.contract_id
WorkdayForeignKeyViolation(db) ==
    \E i \in DOMAIN db.added : ~get_contract_found(db.added[i].contract_id)

\* the table after db.commit()
WorkdaysCommitted(db) ==
    (db.workdays \ db.deleted) \cup {db.added[i] : i \in DOMAIN db.added}

\* db.commit() of a workday request: the table is written, or the flush
\* raises IntegrityError and nothing is
CommitWorkdays(db, status) ==
    IF WorkdayForeignKeyViolation(db) THEN RequestFails("integrity_error: foreign key")
    ELSE IF WorkdayUniqueViolation(db)
         THEN RequestFails("integrity_error: uq_workday_contract_date")
    ELSE /\ db_workdays' = WorkdaysCommitted(db)
         /\ response' = status
         /\ UNCHANGED <<db_contracts, db_snapshots>>

\* sorted(parse_days_list(days))
SortedDays(days) ==
    LET key == [i \in DOMAIN days |-> days[i] * (Len(days) + 1) + i]
    IN  [i \in DOMAIN days |-> days[OrderedBy(DOMAIN days, key)[i]]]

\* "if not start_value or not end_value" for a worked day
TimesMissing(v) == v.kind = NORMAL /\ (v.start_time = <<>> \/ v.end_time = <<>>)

\* the hours the form handlers compute: hours_between_times for a worked day
\* (ValueError when its times are in the wrong order), 0.0 for any other kind
FormHours(v) ==
    IF v.kind = NORMAL THEN hours_between_times(v.start_time[1], v.end_time[1])
    ELSE N(0)

\* the fields the form handlers hand to crud.upsert_workday
FormValues(v) ==
    IF v.kind = NORMAL THEN v ELSE [v EXCEPT !.start_time = <<>>, !.end_time = <<>>]

\* POST /contracts/{contract_id}/workdays
save_workday ==
    /\ \E contract_id \in ContractIds, d \in WorkdayFormDates, v \in WorkdayForms :
          IF TimesMissing(v) THEN RequestFails("bad_request")
          ELSE IF IsError(FormHours(v)) THEN RequestFails("value_error")
          ELSE CommitWorkdays(
                   upsert_workday(WorkdaySession, contract_id, d, FormHours(v),
                                  FormValues(v)),
                   "saved")
    /\ UNCHANGED <<sumVars, calcVars, yearVars>>

\* POST /contracts/{contract_id}/workdays/bulk
save_workdays_bulk ==
    /\ \E contract_id \in ContractIds, days \in BulkDayLists, v \in WorkdayForms :
          IF ~get_contract_found(contract_id) THEN RequestFails("not_found")
          ELSE IF days = <<>> THEN RequestFails("bad_request")
          ELSE IF TimesMissing(v) THEN RequestFails("bad_request")
          ELSE IF IsError(FormHours(v)) THEN RequestFails("value_error")
          ELSE CommitWorkdays(
                   UpsertEach(WorkdaySession, contract_id, SortedDays(days),
                              FormHours(v), FormValues(v)),
                   "saved")
    /\ UNCHANGED <<sumVars, calcVars, yearVars>>

\* POST /api/contracts/{contract_id}/workdays
upsert_workday_api ==
    /\ \E contract_id \in ContractIds, d \in WorkdayFormDates, payload \in WorkdayPayloads :
          IF RLt(payload.hours, N(0)) THEN RequestFails("unprocessable")
          ELSE IF ~get_contract_found(contract_id) THEN RequestFails("not_found")
          ELSE CommitWorkdays(
                   upsert_workday(WorkdaySession, contract_id, d, payload.hours, payload),
                   "saved")
    /\ UNCHANGED <<sumVars, calcVars, yearVars>>

\* POST /contracts/{contract_id}/workdays/delete
delete_workday ==
    /\ \E contract_id \in ContractIds, d \in WorkdayFormDates :
          CommitWorkdays(crud_delete_workday(WorkdaySession, contract_id, d), "deleted")
    /\ UNCHANGED <<sumVars, calcVars, yearVars>>

\* POST /contracts/{contract_id}/workdays/bulk_delete
delete_workdays_bulk ==
    /\ \E contract_id \in ContractIds, days \in BulkDayLists :
          IF ~get_contract_found(contract_id) THEN RequestFails("not_found")
          ELSE IF days = <<>> THEN RequestFails("bad_request")
          ELSE CommitWorkdays(DeleteEach(WorkdaySession, contract_id, SortedDays(days)),
                              "deleted")
    /\ UNCHANGED <<sumVars, calcVars, yearVars>>

NextWorkdays ==
    \/ create_contract
    \/ save_workday
    \/ save_workdays_bulk
    \/ upsert_workday_api
    \/ delete_workday
    \/ delete_workdays_bulk

\* the workday requests, from an empty database
SpecWorkdays == Init /\ [][NextWorkdays]_vars

-----------------------------------------------------------------------------
(* scripts/import_assmat_tracker.py: import_month.  A month file is the    *)
(* "dailyData" object of its JSON payload: the days in the order of the    *)
(* file, each date once (the keys of an object), with the fields the       *)
(* script reads.  The whole file is processed in one session_scope().      *)

MaxFileDays == 2

\* the dates a month file may hold: 2025-01-14, 2025-01-15
ImportDates == DateOrdinal(2025, 1, 14)..DateOrdinal(2025, 1, 15)

\* month_key_from_payload: "2025-01"
ImportMonthKey == [year |-> 2025, month |-> 1]

\* the value of a day: worked 09:00-17:00 with a meal, a day without status
\* whose "reprise" is before its "depot", and an unpaid leave sent with times
ImportDayData ==
    {[status |-> "travail", depot |-> TimeOfDay(9, 0), reprise |-> TimeOfDay(17, 0),
      fraisRepas |-> TRUE, fraisEntretien |-> FALSE],
     [status |-> "", depot |-> TimeOfDay(17, 0), reprise |-> TimeOfDay(9, 0),
      fraisRepas |-> TRUE, fraisEntretien |-> TRUE],
     [status |-> "conge-sans-solde", depot |-> TimeOfDay(9, 0),
      reprise |-> TimeOfDay(17, 0), fraisRepas |-> FALSE, fraisEntretien |-> FALSE]}

\* {"status": "ferie"}: the entry added for a holiday that the file does not hold
HolidayOnly ==
    [status |-> "ferie", depot |-> <<>>, reprise |-> <<>>,
     fraisRepas |-> FALSE, fraisEntretien |-> FALSE]

\* payload["dailyData"].items()
MonthFiles ==
    {m \in SeqsUpTo([date : ImportDates, data : ImportDayData], MaxFileDays) :
        \A i, j \in DOMAIN m : i # j => m[i].date # m[j].date}

\* the keys of the merged holidays: none, 2025-01-15, or a day of another
\* month (2025-02-01)
HolidayLists == {<<>>, <<DateOrdinal(2025, 1, 15)>>, <<DateOrdinal(2025, 2, 1)>>}

\* date_key.startswith(month_prefix)
InMonth(d, month_key) == YearOf(d) = month_key.year /\ MonthOf(d) = month_key.month

RECURSIVE apply_holidays_to_daily_data(_, _, _)
\* apply_holidays_to_daily_data(daily_data, month_key, holidays): a holiday of
\* the month turns the entry of its date into "ferie", or adds one
apply_holidays_to_daily_data(daily_data, month_key, holidays) ==
    IF holidays = <<>> THEN daily_data
    ELSE LET date_key == Head(holidays)
             held == {i \in DOMAIN daily_data : daily_data[i].date = date_key}
             updated_data ==
                 IF ~InMonth(date_key, month_key) THEN daily_data
                 ELSE IF held # {}
                      THEN [i \in DOMAIN daily_data |->
                               IF i \in held
                               THEN [daily_data[i] EXCEPT !.data.status = "ferie"]
                               ELSE daily_data[i]]
                 ELSE Append(daily_data, [date |-> date_key, data |-> HolidayOnly])
         IN  apply_holidays_to_daily_data(updated_data, month_key, Tail(holidays))

\* STATUS_MAP.get(data.get("status") or "travail", WorkdayKind.NORMAL)
STATUS_MAP(status) ==
    IF status = "conge-sans-solde" THEN UNPAID_LEAVE
    ELSE IF status = "conge-assmat" THEN ASSMAT_LEAVE
    ELSE IF status = "conge-parent" THEN ABSENCE
    ELSE IF status = "ferie" THEN HOLIDAY
    ELSE NORMAL

\* "kind == WorkdayKind.NORMAL and start_time and end_time"
ImportHasTimes(data) ==
    STATUS_MAP(data.status) = NORMAL /\ data.depot # <<>> /\ data.reprise # <<>>

\* the hours of a day of the file: hours_between_times (ValueError when the
\* end is not after the start), or 0.0
ImportHours(data) ==
    IF ImportHasTimes(data) THEN hours_between_times(data.depot[1], data.reprise[1])
    ELSE N(0)

\* the fields handed to crud.upsert_workday for a day of the file
ImportValues(data) ==
    [kind |-> STATUS_MAP(data.status),
     start_time |-> IF ImportHasTimes(data) THEN data.depot ELSE <<>>,
     end_time |-> IF ImportHasTimes(data) THEN data.reprise ELSE <<>>,
     fee_meal |-> data.fraisRepas, fee_maintenance |-> data.fraisEntretien]

RECURSIVE ImportEach(_, _, _)
\* "for day_str, data in daily_data.items()": the session after the loop, or
\* the session at the day that raised
ImportEach(db, contract_id, daily_data) ==
    IF daily_data = <<>> THEN [db |-> db, raised |-> FALSE]
    ELSE LET item == Head(daily_data)
         IN  IF IsError(ImportHours(item.data)) THEN [db |-> db, raised |-> TRUE]
             ELSE ImportEach(upsert_workday(db, contract_id, item.date,
                                            ImportHours(item.data),
                                            ImportValues(item.data)),
                             contract_id, Tail(daily_data))

\* session_scope() with the commit moved to "finally": what was upserted
\* before the exception is written
ImportMonthCommitsInFinally(contract_id, month_file, holidays) ==
    LET daily_data == apply_holidays_to_daily_data(month_file, ImportMonthKey, holidays)
        r == ImportEach(WorkdaySession, contract_id, daily_data)
    IN  CommitWorkdays(r.db, IF r.raised THEN "value_error" ELSE "imported")

\* import_month(contract_id, month_path, holidays): session_scope() commits
\* after the loop, or rolls back and re-raises
ImportMonth(contract_id, month_file, holidays) ==
    LET daily_data == apply_holidays_to_daily_data(month_file, ImportMonthKey, holidays)
        r == ImportEach(WorkdaySession, contract_id, daily_data)
    IN  IF r.raised THEN RequestFails("value_error")
        ELSE CommitWorkdays(r.db, "imported")

import_month ==
    /\ \E contract_id \in ContractIds, month_file \in MonthFiles,
          holidays \in HolidayLists :
          ImportMonth(contract_id, month_file, holidays)
    /\ UNCHANGED <<sumVars, calcVars, yearVars>>

NextImport ==
    \/ create_contract
    \/ import_month

\* imports of month files, from an empty database
SpecImport == Init /\ [][NextImport]_vars

-----------------------------------------------------------------------------
(* summarize_period over a period and over the two parts of a split of it. *)
(* The summaries are computed in exact arithmetic; the two theoretical     *)
(* accumulators are computed a second time in rounded arithmetic: a Python *)
(* float keeps 53 significant bits and every +, * and / rounds its result  *)
(* to the nearest float.  The model rounds in the same way to FloatBits    *)
(* significant bits (fewer than 53, for the integers of the checker).      *)

FloatBits == 10

RECURSIVE Pow2(_)
Pow2(n) == IF n = 0 THEN 1 ELSE 2 * Pow2(n - 1)

\* the integer nearest to the rational m >= 0, a tie going to the even one
RoundHalfEven(m) ==
    LET lo == m[1] \div m[2]
        twice == 2 * (m[1] - lo * m[2])
    IN  IF twice > m[2] \/ (twice = m[2] /\ lo % 2 = 1) THEN lo + 1 ELSE lo

RECURSIVE RoundScaled(_, _, _, _)
\* the float nearest to (n / d) * up / down for n, d > 0 and up, down powers
\* of 2: n / d is scaled by powers of 2 until its integer part has FloatBits
\* bits, rounded there, and scaled back
RoundScaled(n, d, up, down) ==
    IF n >= Pow2(FloatBits) * d THEN RoundScaled(n, 2 * d, 2 * up, down)
    ELSE IF n < Pow2(FloatBits - 1) * d THEN RoundScaled(2 * n, d, up, 2 * down)
    ELSE Q(RoundHalfEven(<<n, d>>) * up, down)

\* the float nearest to the rational x > 0
RoundPositive(x) == RoundScaled(x[1], x[2], 1, 1)

\* the float nearest to the rational x; errors pass through
float_round(x) ==
    IF ~IsNumber(x) THEN x
    ELSE IF x[1] = 0 THEN Zero
    ELSE IF x[1] > 0 THEN RoundPositive(x)
    ELSE RSub(Zero, RoundPositive(RSub(Zero, x)))

\* float.__add__, float.__mul__, float.__truediv__
FAdd(a, b) == float_round(RAdd(a, b))
FMul(a, b) == float_round(RMul(a, b))
FDiv(a, b) == float_round(RDiv(a, b))

\* contract_monthly_hours and contract_monthly_salary in float arithmetic
contract_monthly_hours_float(facts) ==
    IF ~_assert_positive(facts.hours_per_week) THEN ValueError
    ELSE IF ~_assert_positive(facts.weeks_per_year) THEN ValueError
    ELSE FDiv(FMul(float_round(facts.hours_per_week), float_round(facts.weeks_per_year)),
              N(12))
contract_monthly_salary_float(facts) ==
    IF ~_assert_positive(facts.hourly_rate) THEN ValueError
    ELSE LET h == contract_monthly_hours_float(facts)
         IN  IF IsError(h) THEN h ELSE FMul(h, float_round(facts.hourly_rate))

RECURSIVE TheoreticalLoopFloat(_, _, _, _, _, _)
\* the loop of summarize_period for theo_hours and theo_salary alone, in float
\* arithmetic, from day d on: the two accumulators, or failed
TheoreticalLoopFloat(c, tl, idx, a, d, last) ==
    IF ~iter_days_yields(d, last) THEN [acc |-> a, failed |-> FALSE]
    ELSE LET idx1 == AdvanceSettingsIndex(tl, idx, d)
             facts == ContractFacts(c, At(tl, idx1))
             monthly_hours == contract_monthly_hours_float(facts)
             monthly_salary == contract_monthly_salary_float(facts)
         IN  IF IsError(monthly_hours) \/ IsError(monthly_salary)
             THEN [acc |-> a, failed |-> TRUE]
             ELSE TheoreticalLoopFloat(c, tl, idx1,
                      [theo_hours |->
                           FAdd(a.theo_hours, FDiv(monthly_hours, N(days_in_month(d)))),
                       theo_salary |->
                           FAdd(a.theo_salary, FDiv(monthly_salary, N(days_in_month(d))))],
                      d + 1, last)

\* monthly_hours_theoretical and monthly_salary_theoretical of
\* summarize_period(c, ., snapshots, start=, end=) in float arithmetic
theoretical_float(c, snapshots, period_start, period_end) ==
    TheoreticalLoopFloat(c, build_settings_timeline(c, snapshots), 0,
                         [theo_hours |-> Zero, theo_salary |-> Zero],
                         period_start, period_end).acc

\* the workdays of the calls: none, or 10 hours worked with both fees on
\* 2025-01-14 and a day of unpaid leave on 2025-01-15
SplitWorkdayLists ==
    {w \in WorkdayLists :
        \/ w = <<>>
        \/ /\ Len(w) = 2
           /\ w[1].kind = NORMAL /\ w[1].hours = N(10) /\ w[1].fee_maintenance
           /\ w[2].kind = UNPAID_LEAVE}
\* the periods and the last day of their first part: 14-16 January and
\* 30 January-2 February 2025, split after each day but the last
SplitPeriods ==
    {<<DateOrdinal(2025, 1, 14), DateOrdinal(2025, 1, 16)>>,
     <<DateOrdinal(2025, 1, 30), DateOrdinal(2025, 2, 2)>>}
Splits ==
    UNION {{[start |-> p[1], mid |-> m, end |-> p[2]] : m \in p[1]..(p[2] - 1)} :
              p \in SplitPeriods}

\* the periods of the three calls: [start, end], [start, mid], [mid + 1, end]
SplitPeriodsOf(p) ==
    [whole |-> <<p.start, p.end>>, first |-> <<p.start, p.mid>>,
     second |-> <<p.mid + 1, p.end>>]

\* what the three calls return, and their theoretical hours and salary in
\* float arithmetic
SplitSummaries(c, wds, snapshots, p) ==
    [returned |-> [k \in DOMAIN SplitPeriodsOf(p) |->
                      summarize_period(c, wds, snapshots, SplitPeriodsOf(p)[k][1],
                                       SplitPeriodsOf(p)[k][2])],
     in_float |-> [k \in DOMAIN SplitPeriodsOf(p) |->
                      theoretical_float(c, snapshots, SplitPeriodsOf(p)[k][1],
                                        SplitPeriodsOf(p)[k][2])]]

\* summarize_period called on [start, end], on [start, mid] and on
\* [mid + 1, end] with the same contract, workdays and snapshots
CallSummarizePeriodSplit ==
    /\ calc_fn = ""
    /\ \E c \in SumContracts, wds \in SplitWorkdayLists, snapshots \in SnapshotLists,
          p \in Splits :
          /\ calc_args' = [contract |-> c, workdays |-> wds, snapshots |-> snapshots,
                           start |-> p.start, mid |-> p.mid, end |-> p.end]
          /\ \E r \in {SplitSummaries(c, wds, snapshots, p)} :
                calc_result' =
                    [whole |-> r.returned.whole, first |-> r.returned.first,
                     second |-> r.returned.second,
                     whole_float |-> r.in_float.whole,
                     first_float |-> r.in_float.first,
                     second_float |-> r.in_float.second]
    /\ calc_fn' = "summarize_period"
    /\ UNCHANGED <<sumVars, storeVars, yearVars>>

SpecSplit == InitCalc /\ [][CallSummarizePeriodSplit]_vars

-----------------------------------------------------------------------------
(* What the claims about summarize_period are stated with: the snapshot    *)
(* effective on a day, found by a search of the whole timeline, and sums   *)
(* over the days of the period.                                            *)

\* the positions of the timeline entries whose valid_from is <= d
EntriesUpTo(tl, d) == {i \in 1..Len(tl) : tl[i].valid_from <= d}

\* the last timeline entry whose valid_from is <= d; the earliest entry for a
\* day that precedes them all
EffectiveOn(tl, d) ==
    IF EntriesUpTo(tl, d) = {} THEN tl[1] ELSE tl[SetMax(EntriesUpTo(tl, d))]

RECURSIVE RSumBetween(_, _, _, _)
\* the sum of f[x] over the x of S between lo and hi, by halves
RSumBetween(f, S, lo, hi) ==
    IF lo > hi THEN Zero
    ELSE IF lo = hi THEN (IF lo \in S THEN f[lo] ELSE Zero)
    ELSE RAdd(RSumBetween(f, S, lo, (lo + hi) \div 2),
              RSumBetween(f, S, (lo + hi) \div 2 + 1, hi))

\* the sum of f[x] over x in S, a finite set of integers
RSum(f, S) == IF S = {} THEN Zero ELSE RSumBetween(f, S, SetMin(S), SetMax(S))

PeriodDays == start..end

\* the days of the period that have a workday row, and their rows
RecordedDays == {d \in PeriodDays : \E i \in DOMAIN workdays : workdays[i].date = d}
RowOf(d) == workdays[SetMax({i \in DOMAIN workdays : workdays[i].date = d})]
DaysOfKind(k) == {d \in RecordedDays : RowOf(d).kind = k}
WorkedDays == {d \in DaysOfKind(NORMAL) : RowOf(d).hours[1] > 0}

Returned == pc = "done" /\ Len(summary) = 1

\* C1: on every day visited by summarize_period, the settings applied are
\* those of the last timeline entry whose valid_from is <= the day (the
\* cursor stands on it): a day equal to an entry's valid_from is governed by
\* that entry, the day before by the previous one.
C1_EffectiveSnapshotApplied ==
    (pc \in {"loop", "done", "raised"} /\ day # 0 /\ EntriesUpTo(settings, day) # {})
        => /\ settings_index + 1 = SetMax(EntriesUpTo(settings, day))
           /\ current = settings[SetMax(EntriesUpTo(settings, day))]

\* C1's case: the day visited is the valid_from of the second of two entries
\* with different values, and that entry is applied
C1_Witness ==
    /\ pc = "loop"
    /\ Len(settings) = 2
    /\ settings[1].valid_from < settings[2].valid_from
    /\ day = settings[2].valid_from
    /\ settings[1].hourly_rate # settings[2].hourly_rate
    /\ current = settings[2]

\* hours_per_week * weeks_per_year / 12 of a timeline entry
MonthlyHoursOf(e) == RDiv(RMul(e.hours_per_week, e.weeks_per_year), N(12))

\* monthly hours and salary of the entry effective on d, divided by the days
\* of d's month
TheoHoursOfDay(d) ==
    RDiv(MonthlyHoursOf(EffectiveOn(settings, d)), N(monthrange(YearOf(d), MonthOf(d))))
TheoSalaryOfDay(d) == RMul(TheoHoursOfDay(d), EffectiveOn(settings, d).hourly_rate)

\* a full 31-day month whose settings change on its 15th
ChangeOnThe15th ==
    /\ <<start, end>> = FullMonth
    /\ Len(settings) = 2
    /\ settings[1].valid_from = DateOrdinal(2025, 1, 1)
    /\ settings[2].valid_from = DateOrdinal(2025, 1, 15)

\* C3: the theoretical hours (salary) returned are the sum over every day of
\* [start, end] of the monthly hours (salary) of the snapshot effective on
\* the day divided by the days of the day's month; with a change on the 15th
\* of a 31-day month the first snapshot weighs 14 days and the second 17.
C3_TheoreticalIsDailySum ==
    Returned =>
        /\ summary[1].monthly_hours_theoretical =
               RSum([d \in PeriodDays |-> TheoHoursOfDay(d)], PeriodDays)
        /\ summary[1].monthly_salary_theoretical =
               RSum([d \in PeriodDays |-> TheoSalaryOfDay(d)], PeriodDays)
        /\ ChangeOnThe15th =>
               summary[1].monthly_hours_theoretical =
                   RAdd(RMul(N(14), RDiv(MonthlyHoursOf(settings[1]), N(31))),
                        RMul(N(17), RDiv(MonthlyHoursOf(settings[2]), N(31))))

\* C3's case: the full month was summarized across a change of hours_per_week
C3_Witness ==
    /\ Returned
    /\ ChangeOnThe15th
    /\ settings[1].hours_per_week # settings[2].hours_per_week
    /\ summary[1].monthly_hours_theoretical # Zero

\* the hours of day d's row below its snapshot's threshold, and above it
NormalHoursOfDay(d) ==
    LET e == EffectiveOn(settings, d)
    IN  IF IsNone(e.majoration_threshold) THEN RowOf(d).hours
        ELSE RMin(RowOf(d).hours, e.majoration_threshold)
MajoratedHoursOfDay(d) == RSub(RowOf(d).hours, NormalHoursOfDay(d))
BaseSalaryOfDay(d) == RMul(NormalHoursOfDay(d), EffectiveOn(settings, d).hourly_rate)
MajorationSalaryOfDay(d) ==
    LET e == EffectiveOn(settings, d)
    IN  IF IsNone(e.majoration_rate) THEN Zero
        ELSE RMul(RMul(MajoratedHoursOfDay(d), e.hourly_rate), e.majoration_rate)

\* C4: real hours and salary come only from the Normal rows with hours > 0,
\* each valued with the rate, threshold and majoration rate of the snapshot
\* effective on its day: salary_base is the sum of min(hours, threshold) *
\* rate over those days; rows of any other kind contribute nothing.
C4_RealTotalsFromEffectiveSnapshot ==
    Returned =>
        /\ summary[1].hours_real =
               RSum([d \in WorkedDays |-> RowOf(d).hours], WorkedDays)
        /\ summary[1].hours_normal =
               RSum([d \in WorkedDays |-> NormalHoursOfDay(d)], WorkedDays)
        /\ summary[1].hours_majorated =
               RSum([d \in WorkedDays |-> MajoratedHoursOfDay(d)], WorkedDays)
        /\ summary[1].salary_base =
               RSum([d \in WorkedDays |-> BaseSalaryOfDay(d)], WorkedDays)
        /\ summary[1].salary_majoration =
               RSum([d \in WorkedDays |-> MajorationSalaryOfDay(d)], WorkedDays)

\* C4's case: two worked days of 10 hours, the first under a snapshot at rate 5
\* without threshold, the second on the day a snapshot at rate 6 with
\* threshold 8 and majoration 1.25 takes effect
C4_Witness ==
    /\ Returned
    /\ Len(settings) = 2
    /\ settings[1].hourly_rate = N(5) /\ settings[2].hourly_rate = N(6)
    /\ WorkedDays = {settings[2].valid_from - 1, settings[2].valid_from}
    /\ \A d \in WorkedDays : RowOf(d).hours = N(10)
    /\ summary[1].salary_base = N(98)
    /\ summary[1].salary_majoration = N(15)
    /\ summary[1].hours_majorated = N(2)

\* one day's deduction from the snapshot effective on d
DeductionOfDay(d) ==
    LET e == EffectiveOn(settings, d)
    IN  IF IsNone(e.days_per_week) THEN Zero
        ELSE RMul(RDiv(e.hours_per_week, e.days_per_week), e.hourly_rate)

\* C5: every UnpaidLeave day of the period adds one day's deduction computed
\* from hours_per_week, days_per_week and hourly_rate of the snapshot
\* effective on that day (0 when its days_per_week is unset); days of other
\* kinds add nothing.
C5_DeductionFromEffectiveSnapshot ==
    Returned =>
        summary[1].unpaid_leave_deduction =
            RSum([d \in DaysOfKind(UNPAID_LEAVE) |-> DeductionOfDay(d)],
                 DaysOfKind(UNPAID_LEAVE))

\* C5's case: an unpaid-leave day under a snapshot of 20 hours in 5 days at
\* rate 6, beside a day of another kind: the deduction is 1 * 4 * 6
C5_Witness ==
    /\ Returned
    /\ Cardinality(DaysOfKind(UNPAID_LEAVE)) = 1
    /\ Cardinality(RecordedDays) = 2
    /\ \A d \in DaysOfKind(UNPAID_LEAVE) :
           /\ EffectiveOn(settings, d).hours_per_week = N(20)
           /\ EffectiveOn(settings, d).days_per_week = N(5)
           /\ EffectiveOn(settings, d).hourly_rate = N(6)
    /\ summary[1].unpaid_leave_deduction = N(24)

FeeMealDays == {d \in RecordedDays : RowOf(d).fee_meal}
FeeMaintenanceDays == {d \in RecordedDays : RowOf(d).fee_maintenance}
AmountOrZero(x) == IF IsNone(x) THEN Zero ELSE x

\* C6: each day of the period whose row has the fee_meal (fee_maintenance)
\* flag, whatever its kind, counts one fee day and adds the fee amount of the
\* snapshot effective on that day, 0 when unset; other days change neither.
C6_FeesFromEffectiveSnapshot ==
    Returned =>
        /\ summary[1].fee_meal_days = Cardinality(FeeMealDays)
        /\ summary[1].fee_maintenance_days = Cardinality(FeeMaintenanceDays)
        /\ summary[1].fee_meal_total =
               RSum([d \in FeeMealDays |->
                        AmountOrZero(EffectiveOn(settings, d).fee_meal_amount)],
                    FeeMealDays)
        /\ summary[1].fee_maintenance_total =
               RSum([d \in FeeMaintenanceDays |->
                        AmountOrZero(EffectiveOn(settings, d).fee_maintenance_amount)],
                    FeeMaintenanceDays)

\* C6's case: an Absence row with both flags on the day a snapshot without
\* meal fee takes effect, and a Normal row with the meal flag the day before
C6_Witness ==
    /\ Returned
    /\ Len(settings) = 2
    /\ settings[1].valid_from < settings[2].valid_from
    /\ IsNone(settings[2].fee_meal_amount)
    /\ RecordedDays = {settings[2].valid_from - 1, settings[2].valid_from}
    /\ RowOf(settings[2].valid_from).kind = ABSENCE
    /\ summary[1].fee_meal_days = 2
    /\ summary[1].fee_meal_total = settings[1].fee_meal_amount
    /\ summary[1].fee_maintenance_days = 1
    /\ summary[1].fee_maintenance_total = settings[2].fee_maintenance_amount

\* C7: in every summary returned, salary_real_estimated = salary_base +
\* salary_majoration, hours_delta = hours_real - monthly_hours_theoretical and
\* total_estimated = salary_real_estimated + fee_meal_total +
\* fee_maintenance_total - unpaid_leave_deduction.
C7_SummaryIdentities ==
    Returned =>
        LET s == summary[1]
        IN  /\ s.salary_real_estimated = RAdd(s.salary_base, s.salary_majoration)
            /\ s.hours_delta = RSub(s.hours_real, s.monthly_hours_theoretical)
            /\ RAdd(s.total_estimated, s.unpaid_leave_deduction) =
                   RAdd(s.salary_real_estimated,
                        RAdd(s.fee_meal_total, s.fee_maintenance_total))

\* C7's case: a summary with majoration, fees and a deduction, none of them 0
C7_Witness ==
    /\ Returned
    /\ summary[1].salary_majoration # Zero
    /\ summary[1].fee_maintenance_total # Zero
    /\ summary[1].unpaid_leave_deduction # Zero
    /\ summary[1].hours_delta # Zero

C8_WitnessNoWorkDay ==
    /\ Returned
    /\ RecordedDays # {}
    /\ DaysOfKind(NORMAL) = {}
    /\ summary[1].average_hours_per_day = Zero


-----------------------------------------------------------------------------
(* The claims about calculations.py                                        *)

\* the positions of the records workday_totals was asked to include
IncludedRecords ==
    {i \in DOMAIN calc_args.workdays :
        calc_args.workdays[i].kind \in calc_args.include_kinds}
HoursOfRecord(i) == calc_args.workdays[i].hours
HoursUpToThreshold(i) == RMin(HoursOfRecord(i), calc_args.majoration_threshold)
HoursOverThreshold(i) ==
    RMax(RSub(HoursOfRecord(i), calc_args.majoration_threshold), Zero)

C10_UnpaidLeaveDeduction ==
    calc_fn = "unpaid_leave_deduction" =>
        LET a == calc_args
        IN  /\ IsNone(a.days_per_week) => calc_result = Zero
            /\ ~IsNone(a.days_per_week) =>
                   RMul(calc_result, a.days_per_week) =
                       RMul(N(a.day_count), RMul(a.hours_per_week, a.hourly_rate))
            /\ a.day_count = 0 => calc_result = Zero

\* C10's case, test_unpaid_leave_deduction_with_days_per_week: 2 days of a
\* 40-hour, 5-day week at rate 5 cost 80
C10_Witness ==
    /\ calc_fn = "unpaid_leave_deduction"
    /\ calc_args.day_count = 2
    /\ calc_args.hours_per_week = N(40)
    /\ calc_args.days_per_week = N(5)
    /\ calc_args.hourly_rate = N(5)
    /\ calc_result = N(80)


-----------------------------------------------------------------------------
(* The claims about the stored settings history                            *)

\* the snapshot rows stored for a contract
SnapshotsOf(contract_id) == {r \in db_snapshots : r.contract_id = contract_id}

\* the valid_from of the rows stored for a contract
ValidFromsOf(contract_id) == {r.valid_from : r \in SnapshotsOf(contract_id)}

\* C2: after any sequence of create_contract, save_contract_settings,
\* save_settings_snapshot and delete_settings_snapshot, every contract either
\* has no snapshot or has one with valid_from <= its start_date, so that the
\* timeline covers every day from the contract start on.
C2_TimelineCoversContractStart ==
    \A id \in DOMAIN db_contracts :
        \/ ValidFromsOf(id) = {}
        \/ SetMin(ValidFromsOf(id)) <= db_contracts[id].start_date


-----------------------------------------------------------------------------
(* The claims about build_year_summary                                     *)

YearReturned == year_pc = "done"

\* every workday row stored for the contract of the call, whatever its date
AllWorkdaysOfContract == list_workdays(db_workdays, 1, 0, DateOrdinal(2027, 1, 1))

\* summarize_period called on its own for month m of the year, with all the
\* workdays of the contract
IndependentMonth(m) ==
    summarize_period(year_call.contract, AllWorkdaysOfContract, year_call.snapshots,
                     DateOrdinal(year_call.year, m, 1),
                     DateOrdinal(year_call.year, m, monthrange(year_call.year, m)))
        .summary[1]

IndependentMonths ==
    <<IndependentMonth(1), IndependentMonth(2), IndependentMonth(3),
      IndependentMonth(4), IndependentMonth(5), IndependentMonth(6),
      IndependentMonth(7), IndependentMonth(8), IndependentMonth(9),
      IndependentMonth(10), IndependentMonth(11), IndependentMonth(12)>>

RECURSIVE ISumSeq(_)
ISumSeq(q) == IF q = <<>> THEN 0 ELSE Head(q) + ISumSeq(Tail(q))

RECURSIVE RSumSeq(_)
RSumSeq(q) == IF q = <<>> THEN Zero ELSE RAdd(Head(q), RSumSeq(Tail(q)))

YearCounters ==
    {"work_days", "absence_days", "unpaid_leave_days", "assmat_leave_days",
     "holiday_days", "fee_meal_days", "fee_maintenance_days"}
YearAmounts ==
    {"hours_real", "hours_normal", "hours_majorated", "salary_base",
     "salary_majoration", "salary_real_estimated", "fee_meal_total",
     "fee_maintenance_total", "unpaid_leave_deduction", "total_estimated"}

\* the workday rows of the contract dated in the year of the call
WorkdaysOfTheYear ==
    {r \in db_workdays : r.contract_id = 1 /\ YearOf(r.date) = year_call.year}

\* C11: each additive total of build_year_summary is the sum of that field
\* over twelve summaries computed independently by summarize_period, one per
\* calendar month; every workday of the year is counted in exactly one month.
C11_YearTotalsAreMonthlySums ==
    YearReturned =>
        \E months \in {IndependentMonths} :
            /\ \A f \in YearCounters :
                   totals[f] = ISumSeq([m \in 1..12 |-> months[m][f]])
            /\ \A f \in YearAmounts :
                   totals[f] = RSumSeq([m \in 1..12 |-> months[m][f]])
            /\ totals.yearly_hours_theoretical =
                   RSumSeq([m \in 1..12 |-> months[m].monthly_hours_theoretical])
            /\ totals.yearly_salary_theoretical =
                   RSumSeq([m \in 1..12 |-> months[m].monthly_salary_theoretical])
            /\ totals.work_days + totals.absence_days + totals.unpaid_leave_days
                   + totals.assmat_leave_days + totals.holiday_days
               = Cardinality(WorkdaysOfTheYear)

\* C11's case: a year with a settings change in July and a worked day in
\* January and in December, both counted
C11_Witness ==
    /\ YearReturned
    /\ Len(year_call.snapshots) = 2
    /\ Len(year_call.workdays) = 2
    /\ monthly_items[1].summary.work_days = 1
    /\ monthly_items[12].summary.work_days = 1
    /\ totals.work_days = 2
    /\ totals.fee_meal_total # Zero

\* C12: the yearly hours_delta is yearly hours_real minus yearly theoretical
\* hours, and the yearly average_hours_per_day is yearly hours_real divided by
\* yearly work_days, 0 when there is no work day.
C12_YearDeltaAndAverageRecomputed ==
    YearReturned =>
        /\ RAdd(totals.hours_delta, totals.yearly_hours_theoretical) = totals.hours_real
        /\ totals.work_days = 0 => totals.average_hours_per_day = Zero
        /\ totals.work_days # 0 =>
               RMul(totals.average_hours_per_day, N(totals.work_days)) = totals.hours_real

\* C12's case: two worked days of 10 hours in different months: the yearly
\* average is 10, the twelve monthly averages add up to 20 and their mean is 5/3
C12_Witness ==
    /\ YearReturned
    /\ totals.work_days = 2
    /\ totals.average_hours_per_day = N(10)
    /\ SumOfMonthlyAverages(monthly_items) = N(20)
    /\ YearAverageOfMonths(totals, monthly_items) = Q(5, 3)


-----------------------------------------------------------------------------
(* The claims about summarize_period as a function of its arguments        *)

SameArguments(e) ==
    /\ e.contract = contract
    /\ e.workdays = workdays
    /\ e.snapshots = settings_snapshots
    /\ e.start = start
    /\ e.end = end

Ended == pc \in {"done", "raised"}

\* C13: a call of summarize_period ends as every earlier call with the same
\* contract, workdays, snapshots, start and end ended, whatever calls were
\* made in between: the same exception or a summary equal in every field.
C13_SameArgumentsSameSummary ==
    Ended =>
        \A e \in earlier :
            SameArguments(e) => e.raised = raised /\ e.summary = summary

\* C13's case: the call returns a summary with a worked day, an earlier call
\* had the same arguments and another one, with other arguments, came between
C13_Witness ==
    /\ Returned
    /\ summary[1].work_days = 1
    /\ summary[1].salary_base # Zero
    /\ \E e \in earlier : SameArguments(e)
    /\ \E e \in earlier : ~SameArguments(e) /\ e.raised = "" /\ e.summary[1].work_days = 0


-----------------------------------------------------------------------------
(* The claims about the errors of calculations.py                          *)

\* C14: hours_between_times returns (end_minutes - start_minutes) / 60, the
\* minutes being hour * 60 + minute, when end_minutes > start_minutes, and
\* raises ValueError when end_minutes <= start_minutes: equal times and
\* overnight ranges are rejected, not wrapped to the next day.
C14_HoursBetweenTimes ==
    calc_fn = "hours_between_times" =>
        LET start_minutes == calc_args.start.hour * 60 + calc_args.start.minute
            end_minutes == calc_args.end.hour * 60 + calc_args.end.minute
        IN  /\ end_minutes > start_minutes =>
                   /\ IsNumber(calc_result)
                   /\ RMul(calc_result, N(60)) = N(end_minutes - start_minutes)
            /\ end_minutes <= start_minutes => calc_result = ValueError

\* C14's case: 09:00 to 17:00 is 8 hours
C14_Witness ==
    /\ calc_fn = "hours_between_times"
    /\ calc_args.start.hour = 9 /\ calc_args.start.minute = 0
    /\ calc_args.end.hour = 17 /\ calc_args.end.minute = 0
    /\ calc_result = N(8)

\* C14's other case: 17:00 to 09:00 raises
C14_WitnessOvernight ==
    /\ calc_fn = "hours_between_times"
    /\ calc_args.start.hour = 17 /\ calc_args.end.hour = 9
    /\ calc_result = ValueError

AllPositive(S) == \A x \in S : x[1] > 0

\* C15: contract_monthly_hours returns hours_per_week * weeks_per_year / 12
\* when both are > 0 and raises when either is <= 0; contract_monthly_salary
\* returns that value times hourly_rate and raises when hourly_rate,
\* hours_per_week or weeks_per_year is <= 0.
C15_MonthlyFiguresNeedPositiveParameters ==
    LET c == calc_args.contract
    IN  /\ calc_fn = "contract_monthly_hours" =>
               IF AllPositive({c.hours_per_week, c.weeks_per_year})
               THEN RMul(calc_result, N(12)) = RMul(c.hours_per_week, c.weeks_per_year)
               ELSE calc_result = ValueError
        /\ calc_fn = "contract_monthly_salary" =>
               IF AllPositive({c.hours_per_week, c.weeks_per_year, c.hourly_rate})
               THEN RMul(calc_result, N(12)) =
                        RMul(RMul(c.hours_per_week, c.weeks_per_year), c.hourly_rate)
               ELSE calc_result = ValueError

\* C15's case, test_contract_monthly_salary: 40 hours, 45 weeks, rate 5 give 750
C15_Witness ==
    /\ calc_fn = "contract_monthly_salary"
    /\ calc_args.contract.hours_per_week = N(40)
    /\ calc_args.contract.weeks_per_year = N(45)
    /\ calc_args.contract.hourly_rate = N(5)
    /\ calc_result = N(750)


-----------------------------------------------------------------------------
(* The claims about invalid settings in summarize_period                   *)

\* hours_per_week, weeks_per_year or hourly_rate of the entry is <= 0
NotAllPositive(e) ==
    ~AllPositive({e.hours_per_week, e.weeks_per_year, e.hourly_rate})

\* the days of the period whose effective settings are not all positive
InvalidDays == {d \in PeriodDays : NotAllPositive(EffectiveOn(settings, d))}

\* C16: whenever the settings effective on at least one day of [start, end]
\* have hours_per_week, weeks_per_year or hourly_rate <= 0, summarize_period
\* raises ValueError and returns no summary; it returns one only when the
\* settings of every day are positive.
C16_InvalidSettingsRaise ==
    Ended =>
        /\ InvalidDays # {} => pc = "raised" /\ raised = "ValueError" /\ summary = <<>>
        /\ InvalidDays = {} => Returned

\* C16's case: the settings become invalid (hourly_rate 0) on the 15th, the
\* second day of the period, after a valid first day: the call raises
C16_Witness ==
    /\ pc = "raised"
    /\ start = DateOrdinal(2025, 1, 14)
    /\ day = DateOrdinal(2025, 1, 15)
    /\ current.hourly_rate = N(0)
    /\ acc.theo_hours # Zero
    /\ summary = <<>>


-----------------------------------------------------------------------------
(* The claims about build_settings_timeline                                *)

SettingsFieldNames ==
    {"hours_per_week", "weeks_per_year", "hourly_rate", "days_per_week",
     "majoration_threshold", "majoration_rate", "fee_meal_amount",
     "fee_maintenance_amount", "salary_net_ceiling"}

\* the timeline entry that carries the parameters of r from the date d on
EntryOf(r, d) ==
    [f \in SettingsFieldNames \cup {"valid_from"} |->
        IF f = "valid_from" THEN d ELSE r[f]]

\* C17: build_settings_timeline returns, for an empty snapshot list, exactly
\* one entry dated at contract.start_date with the contract's own fields;
\* otherwise exactly the given snapshots, as many and with the same values, in
\* ascending valid_from order whatever order they were given in, and no entry
\* comes from the contract's own fields.
C17_TimelineIsTheSortedSnapshots ==
    calc_fn = "build_settings_timeline" =>
        LET c == calc_args.contract
            given == calc_args.snapshots
            tl == calc_result
        IN  IF given = <<>>
            THEN tl = <<EntryOf(c, c.start_date)>>
            ELSE /\ Len(tl) = Len(given)
                 /\ \A i \in 1..(Len(tl) - 1) : tl[i].valid_from <= tl[i + 1].valid_from
                 /\ \A i \in DOMAIN tl :
                        Cardinality({j \in DOMAIN tl : tl[j] = tl[i]})
                        = Cardinality({j \in DOMAIN given :
                                          EntryOf(given[j], given[j].valid_from) = tl[i]})

\* C17's case: three snapshots given latest first come back earliest first,
\* for a contract whose own fields are in none of them
C17_Witness ==
    /\ calc_fn = "build_settings_timeline"
    /\ Len(calc_args.snapshots) = 3
    /\ calc_args.snapshots[1].valid_from > calc_args.snapshots[2].valid_from
    /\ calc_args.snapshots[2].valid_from > calc_args.snapshots[3].valid_from
    /\ calc_result[1].valid_from < calc_result[2].valid_from
    /\ calc_result[2].valid_from < calc_result[3].valid_from
    /\ calc_result[1] = EntryOf(calc_args.snapshots[3], calc_args.snapshots[3].valid_from)
    /\ \A i \in 1..3 : calc_result[i].hourly_rate # calc_args.contract.hourly_rate


-----------------------------------------------------------------------------
(* The claims about the uniqueness of the stored rows                      *)

\* the session after upsert_settings_snapshot(db, contract_id, d, f) on the
\* stored rows
Upserted(contract_id, d, f) == upsert_settings_snapshot(SessionLocal, contract_id, d, f)

\* C18: the store holds at most one settings snapshot per (contract,
\* valid_from) after any sequence of requests, and upsert_settings_snapshot
\* for a date that already has a snapshot adds no row: it leaves one row at
\* that date, with the new values, and the other rows as they were.
C18_OneSnapshotPerDate ==
    /\ \A r, q \in db_snapshots : SnapshotKey(r) = SnapshotKey(q) => r = q
    /\ \A id \in DOMAIN db_contracts : \A d \in ValidFromsOf(id), f \in StoreSettings :
           /\ Upserted(id, d, f).added = <<>>
           /\ ~IntegrityError(Upserted(id, d, f))
           /\ Committed(Upserted(id, d, f)) =
                  {r \in db_snapshots : SnapshotKey(r) # <<id, d>>}
                      \cup {SnapshotRow(id, d, f)}

\* C18's case: the snapshot of the contract's start date no longer holds the
\* values the contract was created with, and a second snapshot exists
C18_Witness ==
    /\ response = "saved"
    /\ Cardinality(SnapshotsOf(1)) = 2
    /\ \E r \in SnapshotsOf(1) :
           /\ r.valid_from = db_contracts[1].start_date
           /\ r.hourly_rate # db_contracts[1].hourly_rate

-----------------------------------------------------------------------------
(* The workday requests.                                                   *)

\* the table holds at most one workday per (contract, date)
OneWorkdayPerDate ==
    \A r1, r2 \in db_workdays : WorkdayKey(r1) = WorkdayKey(r2) => r1 = r2

\* C19: after any sequence of save_workday, save_workdays_bulk (a day list may
\* name a day more than once), upsert_workday_api, delete_workday and
\* delete_workdays_bulk requests the store holds at most one workday per
\* (contract, date), and no request is stopped by the uniqueness constraint
\* uq_workday_contract_date: each one completes.
C19_OneWorkdayPerDateAndRequestsComplete ==
    /\ OneWorkdayPerDate
    /\ response # "integrity_error: uq_workday_contract_date"

-----------------------------------------------------------------------------
(* A day of the period without a workday row.                              *)

\* the loop is about to run its body for a day that has no workday row
DayWithoutWorkday ==
    /\ pc = "loop"
    /\ iter_days_yields(iter_current, end)
    /\ iter_current \notin DOMAIN workdays_by_date

\* accumulators a and b differ at most in theo_hours and theo_salary
SameButTheoretical(a, b) ==
    [b EXCEPT !.theo_hours = a.theo_hours, !.theo_salary = a.theo_salary] = a

\* C20: in summarize_period the body run for a day that has no workday row
\* changes only theo_hours and theo_salary: the day counters, real_hours,
\* normal_hours, majorated_hours, the salary components, the fee counters and
\* totals and the unpaid-leave deduction keep their values; and when the
\* body does not raise, the two theoretical accumulators grow by the day's
\* share of the monthly hours and salary of the settings in force.
C20_DayWithoutWorkdayIsTheoreticalOnly ==
    [][DayWithoutWorkday =>
          /\ SameButTheoretical(acc, acc')
          /\ pc' = "loop" =>
                LET facts == ContractFacts(contract, current')
                IN  /\ acc'.theo_hours =
                          RAdd(acc.theo_hours,
                               DayShare(contract_monthly_hours(facts), iter_current))
                    /\ acc'.theo_salary =
                          RAdd(acc.theo_salary,
                               DayShare(contract_monthly_salary(facts), iter_current))]_vars

\* the body has just run for a day without a workday row, after a day that had
\* a worked row with fees: the counters and real figures it must keep are not
\* zero, and the theoretical hours are those of more than one day
C20_Witness ==
    /\ pc = "loop"
    /\ day # 0 /\ iter_current = day + 1
    /\ day \notin DOMAIN workdays_by_date
    /\ acc.work_days > 0
    /\ RLt(Zero, acc.real_hours)
    /\ RLt(Zero, acc.salary_base)
    /\ acc.fee_meal_days > 0
    /\ RLt(Zero, acc.theo_hours)

-----------------------------------------------------------------------------
(* The day counters.                                                       *)

\* the days with a workday row that the loop has been through
RecordedDaysDone == {d \in RecordedDays : d < iter_current}

\* the five day counters, by kind
DayCounterOf(a, k) ==
    IF k = NORMAL THEN a.work_days
    ELSE IF k = ABSENCE THEN a.absence_days
    ELSE IF k = UNPAID_LEAVE THEN a.unpaid_leave_days
    ELSE IF k = ASSMAT_LEAVE THEN a.assmat_leave_days
    ELSE a.holiday_days

\* C21: in summarize_period each workday row dated in [start, end] increments
\* exactly one of work_days, absence_days, unpaid_leave_days,
\* assmat_leave_days, holiday_days, the one of its kind: at any point of the
\* loop each counter is the number of days done that have a row of its kind,
\* so the five sum to the number of days done that have a row; rows dated
\* outside the period increment none.
C21_DayCountersMatchKinds ==
    pc # "call" =>
        /\ \A k \in WorkdayKind :
              DayCounterOf(acc, k) = Cardinality(DaysOfKind(k) \cap RecordedDaysDone)
        /\ acc.work_days + acc.absence_days + acc.unpaid_leave_days
               + acc.assmat_leave_days + acc.holiday_days
             = Cardinality(RecordedDaysDone)

\* the call returned for a period holding a holiday and an unpaid leave: one
\* day counted for each, none for the other kinds
C21_Witness ==
    /\ Returned
    /\ Cardinality(RecordedDays) = 2
    /\ acc.holiday_days = 1
    /\ acc.unpaid_leave_days = 1
    /\ acc.work_days = 0 /\ acc.absence_days = 0 /\ acc.assmat_leave_days = 0

\* the call returned for a period that holds none of the two rows it was
\* given: no counter moved
C21_WitnessOutside ==
    /\ Returned
    /\ Len(workdays) = 2
    /\ RecordedDays = {}
    /\ start <= end
    /\ \A k \in WorkdayKind : DayCounterOf(acc, k) = 0

-----------------------------------------------------------------------------
(* The hour aggregators and include_kinds.                                 *)

\* the kinds a call counts: {Normal} when include_kinds is not given
KindsCounted(kinds) == IF kinds = NoKinds THEN {NORMAL} ELSE kinds

\* the positions of the records of wds dated in the period with a kind counted
CountedRecords(wds, period, kinds) ==
    {i \in DOMAIN wds : /\ period.start <= wds[i].day
                        /\ wds[i].day <= period.end
                        /\ wds[i].kind \in KindsCounted(kinds)}

\* the records of wds whose kind is in kinds, in their order
OfKinds(wds, kinds) == SelectSeq(wds, LAMBDA wd : wd.kind \in kinds)

\* C22: the hour aggregators ignore the records whose kind is not in
\* include_kinds ({Normal} by default).  workday_totals returns what it
\* returns for the list without those records; hours_in_period fails when
\* period.end < period.start and otherwise returns the sum of the hours of
\* exactly the records with period.start <= day <= period.end (both bounds
\* included) and a kind of include_kinds (it fails if one of these has
\* negative hours).
C22_AggregatorsFilterKinds ==
    /\ calc_fn = "workday_totals" =>
          calc_result =
              workday_totals(OfKinds(calc_args.workdays, calc_args.include_kinds),
                             calc_args.hourly_rate, calc_args.majoration_threshold,
                             calc_args.majoration_rate, WorkdayKind)
    /\ calc_fn = "hours_in_period" =>
          LET wds == calc_args.workdays
              counted == CountedRecords(wds, calc_args.period, calc_args.include_kinds)
          IN  IF calc_args.period.end < calc_args.period.start
              THEN calc_result = ValueError
              ELSE IF \E i \in counted : wds[i].hours[1] < 0
              THEN calc_result = ValueError
              ELSE calc_result = RSum([i \in DOMAIN wds |-> wds[i].hours], counted)

\* hours_in_period called without include_kinds on 1-2 February with 8 hours
\* worked on the 1st and 4 hours of absence on the 2nd: 8 hours
C22_Witness ==
    /\ calc_fn = "hours_in_period"
    /\ calc_args.include_kinds = NoKinds
    /\ calc_args.period = [start |-> DateOrdinal(2025, 2, 1), end |-> DateOrdinal(2025, 2, 2)]
    /\ Len(calc_args.workdays) = 2
    /\ calc_args.workdays[1] =
           [day |-> DateOrdinal(2025, 2, 1), hours |-> N(8), kind |-> NORMAL]
    /\ calc_args.workdays[2] =
           [day |-> DateOrdinal(2025, 2, 2), hours |-> N(4), kind |-> ABSENCE]
    /\ calc_result = N(8)

\* workday_totals with include_kinds={Normal} on 6 hours worked and 6 hours of
\* absence: 6 hours in total
C22_WitnessTotals ==
    /\ calc_fn = "workday_totals"
    /\ calc_args.include_kinds = {NORMAL}
    /\ Len(calc_args.workdays) = 2
    /\ calc_args.workdays[1].kind = NORMAL /\ calc_args.workdays[1].hours = N(6)
    /\ calc_args.workdays[2].kind = ABSENCE /\ calc_args.workdays[2].hours = N(6)
    /\ calc_args.hourly_rate = N(4)
    /\ calc_result.total_hours = N(6)
    /\ calc_result.base_salary = N(24)

-----------------------------------------------------------------------------
(* paid_leave_value.                                                       *)

\* the call has valid days_taken, daily_reference_hours and hourly_rate
PaidLeaveInputsValid ==
    /\ calc_args.days_taken[1] >= 0
    /\ calc_args.daily_reference_hours[1] > 0
    /\ calc_args.hourly_rate[1] > 0

\* C23: paid_leave_value fails for negative days_taken and for non-positive
\* daily_reference_hours or hourly_rate, whatever the method and the
\* reference amount; otherwise with method MAINTIEN it returns days_taken *
\* daily_reference_hours * hourly_rate, and with method DIXIEME and no
\* dixieme_reference_amount it fails instead of returning a default amount.
C23_PaidLeaveValue ==
    calc_fn = "paid_leave_value" =>
        /\ ~PaidLeaveInputsValid => calc_result = ValueError
        /\ (PaidLeaveInputsValid /\ calc_args.method = MAINTIEN) =>
               calc_result = RMul(RMul(calc_args.days_taken,
                                       calc_args.daily_reference_hours),
                                  calc_args.hourly_rate)
        /\ (calc_args.method = DIXIEME /\ IsNone(calc_args.dixieme_reference_amount)) =>
               calc_result = ValueError

\* test_paid_leave_value_dixieme_requires_amount: DIXIEME, 2 days, 8 hours,
\* rate 5, no reference amount: ValueError
C23_Witness ==
    /\ calc_fn = "paid_leave_value"
    /\ calc_args.method = DIXIEME
    /\ calc_args.days_taken = N(2)
    /\ calc_args.daily_reference_hours = N(8)
    /\ calc_args.hourly_rate = N(5)
    /\ IsNone(calc_args.dixieme_reference_amount)
    /\ calc_result = ValueError

\* test_paid_leave_value_maintien: 2 days of 8 hours at 5: 80
C23_WitnessMaintien ==
    /\ calc_fn = "paid_leave_value"
    /\ calc_args.method = MAINTIEN
    /\ calc_args.days_taken = N(2)
    /\ calc_args.daily_reference_hours = N(8)
    /\ calc_args.hourly_rate = N(5)
    /\ calc_result = N(80)

-----------------------------------------------------------------------------
(* The arguments of summarize_period.                                      *)

\* the snapshot list of the call is not in ascending order of valid_from
GivenUnsorted ==
    \E i \in 1..(Len(settings_snapshots) - 1) :
        settings_snapshots[i].valid_from > settings_snapshots[i + 1].valid_from

\* C24: no step of summarize_period, the call of build_settings_timeline
\* included, changes the arguments: the contract's fields, the workday rows
\* and the snapshot list (its rows, their values and their order, also when
\* the list was given unsorted) are after each step what they were before
\* it, whether the call goes on, returns or fails.
C24_ArgumentsUnchanged ==
    [][/\ contract' = contract
       /\ workdays' = workdays
       /\ settings_snapshots' = settings_snapshots]_vars

\* the call has returned for a snapshot list given in descending order: the
\* timeline is in ascending order and the list is still as given
C24_Witness ==
    /\ Returned
    /\ Len(settings_snapshots) = 2
    /\ GivenUnsorted
    /\ settings[1].valid_from < settings[2].valid_from
    /\ Len(workdays) > 0

\* the call has failed for a snapshot list given in descending order
C24_WitnessFails ==
    /\ pc = "raised"
    /\ GivenUnsorted

-----------------------------------------------------------------------------
(* The settings cursor and the day loop.                                   *)

\* the number of iterations the day loop has completed
IterationsDone == iter_current - start

\* the cursor and the loop counter at any point of the call after set-up
CursorAndLoopInBounds ==
    pc # "call" =>
        /\ settings_index >= 0
        /\ settings_index < Len(settings)
        /\ day = 0 => settings_index = 0
        /\ IterationsDone >= 0
        /\ day # 0 => day = iter_current - 1 \/ (pc = "raised" /\ day = iter_current)
        /\ pc = "done" =>
              IterationsDone = (IF start <= end THEN end - start + 1 ELSE 0)

\* C25: during one summarize_period call the settings cursor only moves
\* forward: settings_index is 0 until the first day, never decreases, always
\* is a valid index of the timeline (so it is advanced at most
\* len(timeline) - 1 times); each iteration that does not raise moves the
\* loop to the next day, a call that returns has run exactly end - start + 1
\* iterations when start <= end (none otherwise), and every call ends.
C25_CursorForwardLoopTerminates ==
    /\ []CursorAndLoopInBounds
    /\ [][/\ pc # "call" => settings_index' >= settings_index
          /\ (pc = "loop" /\ pc' = "loop") => iter_current' = iter_current + 1]_vars
    /\ <>(pc \in {"done", "raised"})

\* the call returned after its three days, with the cursor moved from the
\* first to the second of two timeline entries
C25_Witness ==
    /\ Returned
    /\ start < end
    /\ IterationsDone = end - start + 1
    /\ Len(settings) = 2
    /\ settings_index = 1
    /\ settings[1].valid_from < settings[2].valid_from
    /\ start < settings[2].valid_from

-----------------------------------------------------------------------------
(* A day earlier than every entry of the timeline.                         *)

\* the loop is about to run its body for a day that precedes every valid_from
DayBeforeTimeline ==
    /\ pc = "loop"
    /\ iter_days_yields(iter_current, end)
    /\ \A i \in DOMAIN settings : iter_current < settings[i].valid_from

\* the earliest entry's parameters are all positive
EarliestEntryValid ==
    /\ _assert_positive(settings[1].hours_per_week)
    /\ _assert_positive(settings[1].weeks_per_year)
    /\ _assert_positive(settings[1].hourly_rate)

\* C26: for a day of the period earlier than every valid_from of the
\* timeline, summarize_period applies the earliest entry: the cursor stays on
\* it, and the body raises only if that entry's parameters are not positive,
\* as it would on any day.  Otherwise the loop goes on to the next day, the
\* day accrues its share of the earliest entry's monthly hours and salary,
\* and a worked row of that day is valued with the earliest entry's rate,
\* threshold and majoration rate.
C26_EarlyDayUsesEarliestEntry ==
    [][DayBeforeTimeline =>
          LET e == settings[1]
              facts == ContractFacts(contract, e)
              d == iter_current
          IN  /\ settings_index' = 0
              /\ current' = e
              /\ pc' = (IF EarliestEntryValid THEN "loop" ELSE "raised")
              /\ EarliestEntryValid =>
                    /\ iter_current' = d + 1
                    /\ acc'.theo_hours =
                          RAdd(acc.theo_hours, DayShare(contract_monthly_hours(facts), d))
                    /\ acc'.theo_salary =
                          RAdd(acc.theo_salary, DayShare(contract_monthly_salary(facts), d))
                    /\ (d \in DOMAIN workdays_by_date /\ CountsAsWorked(workdays_by_date[d])) =>
                          LET wd == workdays_by_date[d]
                              normal == IF IsNone(e.majoration_threshold) THEN wd.hours
                                        ELSE RMin(wd.hours, e.majoration_threshold)
                          IN  /\ acc'.work_days = acc.work_days + 1
                              /\ acc'.real_hours = RAdd(acc.real_hours, wd.hours)
                              /\ acc'.normal_hours = RAdd(acc.normal_hours, normal)
                              /\ acc'.salary_base =
                                    RAdd(acc.salary_base, RMul(normal, e.hourly_rate))]_vars

\* the body has just run for 2025-01-14, a day of 10 hours worked, with a
\* timeline whose only entry takes effect on 2025-01-15 at rate 6 with
\* threshold 8: 8 normal hours, 48.0 of base salary, theoretical hours accrued
C26_Witness ==
    /\ pc = "loop"
    /\ day = DateOrdinal(2025, 1, 14) /\ iter_current = day + 1
    /\ Len(settings) = 1
    /\ settings[1].valid_from = DateOrdinal(2025, 1, 15)
    /\ settings[1].hourly_rate = N(6)
    /\ current = settings[1]
    /\ acc.real_hours = N(10)
    /\ acc.normal_hours = N(8)
    /\ acc.salary_base = N(48)
    /\ RLt(Zero, acc.theo_hours)

-----------------------------------------------------------------------------
(* C27: summarize_period over a split of the period                        *)

SplitCalled == calc_fn = "summarize_period" /\ "mid" \in DOMAIN calc_args
SplitReturned ==
    /\ SplitCalled
    /\ calc_result.whole.raised = ""
    /\ calc_result.first.raised = ""
    /\ calc_result.second.raised = ""
WholeSummary == calc_result.whole.summary[1]
FirstSummary == calc_result.first.summary[1]
SecondSummary == calc_result.second.summary[1]

\* the fields of MonthlySummaryOut that accumulate hours or amounts, and
\* those that count days
AdditiveAmounts ==
    {"monthly_hours_theoretical", "monthly_salary_theoretical", "hours_real",
     "hours_normal", "hours_majorated", "salary_base", "salary_majoration",
     "salary_real_estimated", "fee_meal_total", "fee_maintenance_total",
     "unpaid_leave_deduction", "total_estimated"}
AdditiveCounters ==
    {"work_days", "absence_days", "unpaid_leave_days", "assmat_leave_days",
     "holiday_days", "fee_meal_days", "fee_maintenance_days"}

\* |a - b| for two numbers
RDistance(a, b) == IF RLe(a, b) THEN RSub(b, a) ELSE RSub(a, b)
\* a and b differ by no more than the rounding of the additions of a
\* four-day period: 8 units in the last of the FloatBits bits of b
WithinRounding(a, b) == RLe(RMul(RDistance(a, b), N(Pow2(FloatBits - 3))), b)

\* a settings change falls inside one of the two parts, after its first day
ChangeInsideAPart ==
    \E i \in DOMAIN calc_args.snapshots :
        LET changed == calc_args.snapshots[i].valid_from
        IN  \/ calc_args.start < changed /\ changed <= calc_args.mid
            \/ calc_args.mid + 1 < changed /\ changed <= calc_args.end

\* C27: summarize_period fails on [start, end] exactly when it fails on
\* [start, mid] or on [mid + 1, end]; when the three calls return, every day
\* counter of the summary of [start, end] is the sum of the counters of the two
\* parts, every additive amount is their sum in exact arithmetic, and the
\* theoretical hours and salary computed in float arithmetic are their sum up
\* to the rounding of the additions.
C27_AdditiveOverSplitUpToRounding ==
    SplitCalled =>
        /\ (calc_result.whole.raised # "") <=>
               (calc_result.first.raised # "" \/ calc_result.second.raised # "")
        /\ SplitReturned =>
               /\ \A f \in AdditiveCounters :
                      WholeSummary[f] = FirstSummary[f] + SecondSummary[f]
               /\ \A f \in AdditiveAmounts :
                      WholeSummary[f] = RAdd(FirstSummary[f], SecondSummary[f])
               /\ \A f \in {"theo_hours", "theo_salary"} :
                      WithinRounding(FAdd(calc_result.first_float[f],
                                          calc_result.second_float[f]),
                                     calc_result.whole_float[f])

\* the three calls returned for a period with a worked day and a day of
\* unpaid leave and a change of settings inside a part
C27_Witness ==
    /\ SplitReturned
    /\ ChangeInsideAPart
    /\ WholeSummary.work_days = 1 /\ WholeSummary.unpaid_leave_days = 1
    /\ RLt(Zero, WholeSummary.unpaid_leave_deduction)
    /\ FirstSummary.work_days = 1
    /\ RLt(Zero, SecondSummary.monthly_hours_theoretical)

\* the statement as written, for the floats the program computes: the
\* theoretical hours and salary of [start, end] are equal to the sum of those
\* of the two parts
C27_AdditiveInFloats ==
    SplitReturned =>
        \A f \in {"theo_hours", "theo_salary"} :
            calc_result.whole_float[f] =
                FAdd(calc_result.first_float[f], calc_result.second_float[f])

-----------------------------------------------------------------------------
(* C28: save_contract_settings for a contract without snapshots            *)

\* the days looked at: 2025-01-01 .. 2025-02-02
TimelineDays == DateOrdinal(2025, 1, 1)..DateOrdinal(2025, 2, 2)

\* the parameters the timeline of the rows stored for a contract resolves
\* day d to: the entry summarize_period applies to a period starting on d
ResolvedSettings(c, rows, contract_id, d) ==
    LET tl == build_settings_timeline(c, list_settings_snapshots_ordered(rows, contract_id))
    IN  SettingsFields(At(tl, AdvanceSettingsIndex(tl, 0, d)))

\* the contract is stored and has no snapshot
WithoutSnapshots(contract_id) ==
    get_contract_found(contract_id) /\ SnapshotsOf(contract_id) = {}

\* the request committed and the timeline of the stored rows resolves the
\* days from effective_from on to f and the days of start_date ..
\* effective_from - 1 to the values the contract had
CommittedAndResolved(contract_id, start_date, effective_from, f) ==
    /\ response' = "saved"
    /\ \A d \in TimelineDays :
          LET resolved == ResolvedSettings(db_contracts'[contract_id], db_snapshots',
                                           contract_id, d)
          IN  /\ d >= effective_from => resolved = SettingsFields(f)
              /\ (start_date <= d /\ d < effective_from) =>
                     resolved = SettingsFields(db_contracts[contract_id])

\* C28: every save_contract_settings submitted for a contract that has no
\* snapshots, with any start_date and effective_from, commits, and afterwards
\* the timeline resolves every day on or after effective_from to the submitted
\* values and every day from start_date up to the day before effective_from to
\* the values the contract had before the request.
C28_FirstSettingsCommitAndResolve ==
    [][\A contract_id \in ContractIds, start_date \in StoreDates,
          effective_from \in StoreDates, f \in StoreSettings :
          (WithoutSnapshots(contract_id)
             /\ SubmitContractSettings(contract_id, start_date, effective_from, f))
          => CommittedAndResolved(contract_id, start_date, effective_from, f)]_vars

\* the same for the forms whose effective_from is after their start_date
C28_LaterEffectiveFromCommitsAndResolves ==
    [][\A contract_id \in ContractIds, start_date \in StoreDates,
          effective_from \in StoreDates, f \in StoreSettings :
          (WithoutSnapshots(contract_id) /\ start_date < effective_from
             /\ SubmitContractSettings(contract_id, start_date, effective_from, f))
          => CommittedAndResolved(contract_id, start_date, effective_from, f)]_vars

\* the form with effective_from = start_date is refused at commit
C28_SameDateRefused ==
    [][\A contract_id \in ContractIds, start_date \in StoreDates, f \in StoreSettings :
          (WithoutSnapshots(contract_id)
             /\ SubmitContractSettings(contract_id, start_date, start_date, f))
          => response' = "integrity_error"]_vars

-----------------------------------------------------------------------------
(* C29: save_settings_snapshot with a changed valid_from                   *)

\* the rows of a table held for (contract_id, valid_from)
RowsAt(rows, contract_id, valid_from) ==
    {r \in rows : r.contract_id = contract_id /\ r.valid_from = valid_from}

\* the form names a stored snapshot and another date
ChangesDate(contract_id, original_valid_from, valid_from) ==
    /\ get_contract_found(contract_id)
    /\ RowsAt(db_snapshots, contract_id, original_valid_from) # {}
    /\ valid_from # original_valid_from

\* C29: a save_settings_snapshot that changes the date of a stored snapshot to
\* a date held by another snapshot of the contract answers with the error and
\* leaves the snapshot table and the contracts as they were; when the new date
\* is free it commits, the contract keeps as many snapshots, none remains at
\* the original date and the one at the new date carries the submitted values.
C29_DateChangeRejectedOrMoved ==
    [][\A contract_id \in ContractIds, original_valid_from \in StoreDates,
          valid_from \in StoreDates, f \in StoreSettings :
          (ChangesDate(contract_id, original_valid_from, valid_from)
             /\ SubmitSettingsSnapshot(contract_id, original_valid_from, valid_from, f))
          => IF RowsAt(db_snapshots, contract_id, valid_from) # {}
             THEN /\ response' = "error"
                  /\ db_snapshots' = db_snapshots
                  /\ db_contracts' = db_contracts
             ELSE /\ response' = "saved"
                  /\ Cardinality(db_snapshots') = Cardinality(db_snapshots)
                  /\ RowsAt(db_snapshots', contract_id, original_valid_from) = {}
                  /\ RowsAt(db_snapshots', contract_id, valid_from) =
                         {SnapshotRow(contract_id, valid_from, f)}
                  /\ \A r \in db_snapshots :
                         r.valid_from # original_valid_from => r \in db_snapshots']_vars

\* a change of date was refused while the contract holds two snapshots
C29_Witness == response = "error" /\ Cardinality(SnapshotsOf(1)) >= 2

\* a snapshot was moved: after a save the contract holds a single snapshot, it
\* starts after the contract and carries other values than the contract
C29_WitnessMoved ==
    /\ response = "saved"
    /\ \E r \in db_snapshots :
          /\ SnapshotsOf(1) = {r}
          /\ r.valid_from > db_contracts[1].start_date
          /\ SettingsFields(r) # SettingsFields(db_contracts[1])

-----------------------------------------------------------------------------
(* C30: import_month is all-or-nothing per month file                      *)

\* the days of the file once the holidays are applied
ImportedDays(month_file, holidays) ==
    apply_holidays_to_daily_data(month_file, ImportMonthKey, holidays)

\* processing a day of the file raises
SomeDayFails(daily_data) ==
    \E i \in DOMAIN daily_data : IsError(ImportHours(daily_data[i].data))

\* the row import_month stores for a day of the file
ImportedRow(contract_id, item) ==
    WorkdayRow(contract_id, item.date, ImportHours(item.data), ImportValues(item.data))

\* every day of the file is stored once, as the file has it, and the rows of
\* the other days are as they were
StoredExactlyOnce(contract_id, daily_data) ==
    /\ \A i \in DOMAIN daily_data :
          {r \in db_workdays' : r.contract_id = contract_id
                                 /\ r.date = daily_data[i].date}
              = {ImportedRow(contract_id, daily_data[i])}
    /\ \A r \in db_workdays :
          (\A i \in DOMAIN daily_data : r.date # daily_data[i].date)
              => r \in db_workdays'
    /\ \A r \in db_workdays' :
          (\A i \in DOMAIN daily_data : r.date # daily_data[i].date)
              => r \in db_workdays

\* C30: for every import_month call, if processing any day of the file (after
\* the holiday overrides) fails, the call raises and the workday table is as it
\* was before the call, the days upserted before the failing one included; if
\* no day fails, the import into a stored contract commits and every day of the
\* file is stored exactly once with the values of the file, the other rows
\* being untouched.
C30_ImportMonthAllOrNothing ==
    [][\A contract_id \in ContractIds, month_file \in MonthFiles,
          holidays \in HolidayLists :
          ImportMonth(contract_id, month_file, holidays) =>
              LET daily_data == ImportedDays(month_file, holidays)
              IN  IF SomeDayFails(daily_data)
                  THEN response' = "value_error" /\ db_workdays' = db_workdays
                  ELSE get_contract_found(contract_id) =>
                           /\ response' = "imported"
                           /\ StoredExactlyOnce(contract_id, daily_data)]_vars

\* an import failed while workdays were stored
C30_Witness == response = "value_error" /\ db_workdays # {}

\* an import stored a holiday on 2025-01-15 and a worked day
C30_WitnessStored ==
    /\ response = "imported"
    /\ \E r \in db_workdays : r.kind = HOLIDAY /\ r.date = DateOrdinal(2025, 1, 15)
    /\ \E r \in db_workdays : r.kind = NORMAL /\ r.hours = N(8)

====
